---- MODULE Spec2Model ----
(***************************************************************************)
(* ULWILA Color Score Editor: the two layout engines (staff systems and    *)
(* circle rows), the pitch-to-staff-position mapping and the colour        *)
(* mapping.                                                                *)
(*                                                                         *)
(* Lengths are fixed-point numbers: one pixel is Scale units, so that the  *)
(* fractional radii and gaps of the circle layout (0.6r, 2.2 * 0.6r / 2)   *)
(* and noteSpacing / 2 are exact integers.  Beats are counted in units of  *)
(* 1 / BeatUnit of a quarter note, so that eighth (0.5) and sixteenth      *)
(* (0.25) are exact.                                                       *)
(***************************************************************************)
EXTENDS Integers, Sequences, FiniteSets, TLC

VARIABLES
  score,          \* the Score handed to the layout engines
  config,         \* the Partial<...Config> argument of the call
  pc,             \* which call is in progress
  staffRun,       \* computeLayout: the locals of the running call
  staffLayout,    \* computeLayout: the returned StaffLayout
  circlesRun,     \* computeCirclesLayout: the locals of the running call
  circlesLayout,  \* computeCirclesLayout: the returned CirclesLayout
  accentCall,     \* getAccentedColors: the last call (pitch and returned pair)
  selection,      \* the selection prop handed to the renderer
  scene,          \* the elements the renderer returned, in document order
  state,          \* the Score the reducer holds (useReducer in ScoreProvider)
  lastAction,     \* the action of the last reducer call
  outcome,        \* how the last reducer call ended: "returned", or the error thrown
  given,          \* the object handed to the last reducer call, as it is after the call
  loading,        \* Toolbar handleFileChange: the file being read, or the one last read
  saved,          \* Toolbar handleSave: the score saved and the file downloaded
  events,         \* number of user events so far (dispatches, file choices, saves)
  png,            \* exportPng: the call in progress, its promise and the downloads
  panel,          \* NoteInputPanel: its useState values
  click           \* the last user event in the shell: the control or the canvas target it
                  \* hit, and for a click on the canvas what it dispatched and called

layoutVars ==
  <<score, config, pc, staffRun, staffLayout, circlesRun, circlesLayout, accentCall>>

renderVars == <<selection, scene>>

editorVars == <<state, lastAction, outcome, given, loading, saved, events>>

exportVars == <<png>>

shellVars == <<panel, click>>

vars == <<layoutVars, renderVars, editorVars, exportVars, shellVars>>

----------------------------------------------------------------------------
(* Bounds of the model *)

\* total number of notes/rests of a generated score
MaxNotes == 3
\* number of parts of a generated multi-part score
MaxParts == 2
\* number of user events of one editing session
MaxEvents == 2
\* number of characters of an exported score's title
MaxTitleLen == 2
MaxClicks == 5

----------------------------------------------------------------------------
(* Number representation *)

Scale == 100
BeatUnit == 4

Px(n) == n * Scale

----------------------------------------------------------------------------
(* models/types.ts *)

Pitch == {"C", "D", "E", "F", "G", "A", "H"}
Octave == {"lower", "middle", "upper"}
Duration == {"whole", "half", "quarter", "eighth", "sixteenth"}
Clef == {"treble", "bass"}

\* JavaScript's undefined, as the value of an absent optional string
Undefined == "<undefined>"

\* JavaScript's null, as the value of a string not chosen yet
Null == "<null>"

Note(p, o, d) == [type |-> "note", pitch |-> p, octave |-> o, duration |-> d]
NoteWithLyric(p, o, d, l) ==
  [type |-> "note", pitch |-> p, octave |-> o, duration |-> d, lyric |-> l]
AccentedNote(p, o, d) ==
  [type |-> "note", pitch |-> p, octave |-> o, duration |-> d, accented |-> TRUE]
Rest(d) == [type |-> "rest", duration |-> d]

----------------------------------------------------------------------------
(* constants/colors.ts *)

ULWILA_COLORS ==
  [p \in Pitch |->
     CASE p = "C" -> "#1A1A1A"
       [] p = "D" -> "#8B4513"
       [] p = "E" -> "#0000CD"
       [] p = "F" -> "#228B22"
       [] p = "G" -> "#DC143C"
       [] p = "A" -> "#FF8C00"
       [] p = "H" -> "#FFD700"]

PITCH_NAMES == <<"C", "D", "E", "F", "G", "A", "H">>

ACCENTED_PITCHES == <<"C", "D", "F", "G", "A">>

\* the Partial<Record<Pitch, Pitch>> local to getAccentedColors
NEXT_PITCH ==
  [p \in {"C", "D", "F", "G", "A"} |->
     CASE p = "C" -> "D"
       [] p = "D" -> "E"
       [] p = "F" -> "G"
       [] p = "G" -> "A"
       [] p = "A" -> "H"]

\* getAccentedColors with a next pitch for every pitch (E -> F, H -> C)
getAccentedColors_EveryPitchHasNext(pitch) ==
  LET j == CHOOSE k \in 1..7 : PITCH_NAMES[k] = pitch
  IN  [left |-> ULWILA_COLORS[pitch], right |-> ULWILA_COLORS[PITCH_NAMES[(j % 7) + 1]]]

getAccentedColors(pitch) ==
  IF pitch \notin DOMAIN NEXT_PITCH
    THEN [left |-> ULWILA_COLORS[pitch], right |-> ULWILA_COLORS[pitch]]
    ELSE [left |-> ULWILA_COLORS[pitch], right |-> ULWILA_COLORS[NEXT_PITCH[pitch]]]

----------------------------------------------------------------------------
(* Shared helpers of the two layout engines *)

\* { ...DEFAULT_CONFIG, ...config }
MergeConfig(defaults, partial) ==
  [k \in DOMAIN defaults |-> IF k \in DOMAIN partial THEN partial[k] ELSE defaults[k]]

\* part.notes.forEach((note, noteIndex) => allNotes.push({ note, partIndex, noteIndex }))
PartNotes(part, partIndex) ==
  [j \in 1..Len(part.notes) |->
     [note |-> part.notes[j], partIndex |-> partIndex, noteIndex |-> j - 1]]

RECURSIVE CollectFrom(_, _)
CollectFrom(parts, k) ==
  IF k > Len(parts) THEN <<>>
  ELSE PartNotes(parts[k], k - 1) \o CollectFrom(parts, k + 1)

\* score.parts.forEach((part, partIndex) => ...): indices are 0-based as in the code
CollectAllNotes(s) == CollectFrom(s.parts, 1)

----------------------------------------------------------------------------
(* renderers/staffLayout.ts *)

DEFAULT_CONFIG ==
  [canvasWidth |-> Px(800), staffLineSpacing |-> Px(10), noteSpacing |-> Px(30),
   marginLeft |-> Px(60), marginTop |-> Px(40), staffHeight |-> Px(40),
   systemSpacing |-> Px(80)]

DURATION_TO_BEATS ==
  [d \in Duration |->
     CASE d = "whole" -> 4 * BeatUnit
       [] d = "half" -> 2 * BeatUnit
       [] d = "quarter" -> BeatUnit
       [] d = "eighth" -> BeatUnit \div 2
       [] d = "sixteenth" -> BeatUnit \div 4]

treblePitchOffsets ==
  [p \in Pitch |->
     CASE p = "C" -> -2 [] p = "D" -> -1 [] p = "E" -> 0 [] p = "F" -> 1
       [] p = "G" -> 2 [] p = "A" -> 3 [] p = "H" -> 4]

bassPitchOffsets ==
  [p \in Pitch |->
     CASE p = "C" -> -4 [] p = "D" -> -3 [] p = "E" -> -2 [] p = "F" -> -1
       [] p = "G" -> 0 [] p = "A" -> 1 [] p = "H" -> 2]

octaveOffsets ==
  [o \in Octave |-> CASE o = "lower" -> 0 [] o = "middle" -> 7 [] o = "upper" -> 14]

\* pitchToStaffPosition with the treble table for both clefs
pitchToStaffPosition_AlwaysTreble(pitch, octave, clef) ==
  treblePitchOffsets[pitch] + octaveOffsets[octave]

pitchToStaffPosition(pitch, octave, clef) ==
  LET pitchOffsets == IF clef = "bass" THEN bassPitchOffsets ELSE treblePitchOffsets
  IN  pitchOffsets[pitch] + octaveOffsets[octave]

\* score.timeSignature.beats * (4 / score.timeSignature.beatValue), in beat units
BeatsPerMeasure(s) ==
  (s.timeSignature.beats * 4 * BeatUnit) \div s.timeSignature.beatValue

\* the NoteLayout pushed for one element
StaffNoteLayout(e, x, clef) ==
  IF e.note.type = "rest"
    THEN [x |-> x, y |-> 4, noteIndex |-> e.noteIndex, partIndex |-> e.partIndex,
          isRest |-> TRUE]
    ELSE [x |-> x, y |-> pitchToStaffPosition(e.note.pitch, e.note.octave, clef),
          noteIndex |-> e.noteIndex, partIndex |-> e.partIndex, isRest |-> FALSE,
          octave |-> e.note.octave]

\* computeLayout up to the loop: fullConfig, allNotes, the first system, the counters
StaffStart(s, partial) ==
  LET fullConfig == MergeConfig(DEFAULT_CONFIG, partial)
  IN  [fullConfig |-> fullConfig,
       allNotes |-> CollectAllNotes(s),
       clef |-> s.clef,
       systems |-> <<>>,
       currentSystem |-> [startX |-> fullConfig.marginLeft, startY |-> fullConfig.marginTop,
                          notes |-> <<>>, barLines |-> <<>>],
       currentX |-> fullConfig.marginLeft,
       currentBeats |-> 0,
       beatsPerMeasure |-> BeatsPerMeasure(s),
       i |-> 0]

\* StaffBody with the overflow beats carried into the next measure
StaffBody_CarriesOverflow(r) ==
  LET cfg == r.fullConfig
      e == r.allNotes[r.i + 1]
      placed == [r.currentSystem EXCEPT
                   !.notes = Append(@, StaffNoteLayout(e, r.currentX, r.clef))]
      beats == r.currentBeats + DURATION_TO_BEATS[e.note.duration]
      x == r.currentX + cfg.noteSpacing
      measureComplete == beats >= r.beatsPerMeasure
      barred == IF measureComplete
                  THEN [placed EXCEPT !.barLines = Append(@, x - cfg.noteSpacing \div 2)]
                  ELSE placed
      wrap == x > cfg.canvasWidth - cfg.marginLeft
  IN  [r EXCEPT
         !.i = r.i + 1,
         !.currentBeats = IF measureComplete THEN beats - r.beatsPerMeasure ELSE beats,
         !.systems = IF wrap THEN Append(@, barred) ELSE @,
         !.currentSystem =
            IF wrap
              THEN [startX |-> cfg.marginLeft,
                    startY |-> barred.startY + cfg.staffHeight + cfg.systemSpacing,
                    notes |-> <<>>, barLines |-> <<>>]
              ELSE barred,
         !.currentX = IF wrap THEN cfg.marginLeft ELSE x]

\* StaffBody with the beat counter also reset when a new system is opened
StaffBody_ResetsBeatsOnWrap(r) ==
  LET cfg == r.fullConfig
      e == r.allNotes[r.i + 1]
      placed == [r.currentSystem EXCEPT
                   !.notes = Append(@, StaffNoteLayout(e, r.currentX, r.clef))]
      beats == r.currentBeats + DURATION_TO_BEATS[e.note.duration]
      x == r.currentX + cfg.noteSpacing
      measureComplete == beats >= r.beatsPerMeasure
      barred == IF measureComplete
                  THEN [placed EXCEPT !.barLines = Append(@, x - cfg.noteSpacing \div 2)]
                  ELSE placed
      wrap == x > cfg.canvasWidth - cfg.marginLeft
  IN  [r EXCEPT
         !.i = r.i + 1,
         !.currentBeats = IF measureComplete \/ wrap THEN 0 ELSE beats,
         !.systems = IF wrap THEN Append(@, barred) ELSE @,
         !.currentSystem =
            IF wrap
              THEN [startX |-> cfg.marginLeft,
                    startY |-> barred.startY + cfg.staffHeight + cfg.systemSpacing,
                    notes |-> <<>>, barLines |-> <<>>]
              ELSE barred,
         !.currentX = IF wrap THEN cfg.marginLeft ELSE x]

\* StaffBody closing the system already when the running x reaches the usable width
StaffBody_WrapsAtEdge(r) ==
  LET cfg == r.fullConfig
      e == r.allNotes[r.i + 1]
      placed == [r.currentSystem EXCEPT
                   !.notes = Append(@, StaffNoteLayout(e, r.currentX, r.clef))]
      beats == r.currentBeats + DURATION_TO_BEATS[e.note.duration]
      x == r.currentX + cfg.noteSpacing
      measureComplete == beats >= r.beatsPerMeasure
      barred == IF measureComplete
                  THEN [placed EXCEPT !.barLines = Append(@, x - cfg.noteSpacing \div 2)]
                  ELSE placed
      wrap == x >= cfg.canvasWidth - cfg.marginLeft
  IN  [r EXCEPT
         !.i = r.i + 1,
         !.currentBeats = IF measureComplete THEN 0 ELSE beats,
         !.systems = IF wrap THEN Append(@, barred) ELSE @,
         !.currentSystem =
            IF wrap
              THEN [startX |-> cfg.marginLeft,
                    startY |-> barred.startY + cfg.staffHeight + cfg.systemSpacing,
                    notes |-> <<>>, barLines |-> <<>>]
              ELSE barred,
         !.currentX = IF wrap THEN cfg.marginLeft ELSE x]

\* one iteration of allNotes.forEach
StaffBody(r) ==
  LET cfg == r.fullConfig
      e == r.allNotes[r.i + 1]
      placed == [r.currentSystem EXCEPT
                   !.notes = Append(@, StaffNoteLayout(e, r.currentX, r.clef))]
      beats == r.currentBeats + DURATION_TO_BEATS[e.note.duration]
      x == r.currentX + cfg.noteSpacing
      measureComplete == beats >= r.beatsPerMeasure
      barred == IF measureComplete
                  THEN [placed EXCEPT !.barLines = Append(@, x - cfg.noteSpacing \div 2)]
                  ELSE placed
      wrap == x > cfg.canvasWidth - cfg.marginLeft
  IN  [r EXCEPT
         !.i = r.i + 1,
         !.currentBeats = IF measureComplete THEN 0 ELSE beats,
         !.systems = IF wrap THEN Append(@, barred) ELSE @,
         !.currentSystem =
            IF wrap
              THEN [startX |-> cfg.marginLeft,
                    startY |-> barred.startY + cfg.staffHeight + cfg.systemSpacing,
                    notes |-> <<>>, barLines |-> <<>>]
              ELSE barred,
         !.currentX = IF wrap THEN cfg.marginLeft ELSE x]

\* StaffResult without the push of the last, still open system
StaffResult_DropsLastSystem(r) ==
  LET systems == IF Len(r.systems) = 0 THEN Append(r.systems, r.currentSystem) ELSE r.systems
  IN  [systems |-> systems, config |-> r.fullConfig]

\* StaffResult without the empty system of a score without notes
StaffResult_NoEmptySystem(r) ==
  LET withLast == IF Len(r.currentSystem.notes) > 0
                    THEN Append(r.systems, r.currentSystem) ELSE r.systems
  IN  [systems |-> withLast, config |-> r.fullConfig]

\* StaffResult pushing the open system whether it has notes or not
StaffResult_PushesOpenSystem(r) ==
  [systems |-> Append(r.systems, r.currentSystem), config |-> r.fullConfig]

\* computeLayout after the loop: the last system, the empty system, the result
StaffResult(r) ==
  LET withLast == IF Len(r.currentSystem.notes) > 0
                    THEN Append(r.systems, r.currentSystem) ELSE r.systems
      systems == IF Len(withLast) = 0 THEN Append(withLast, r.currentSystem) ELSE withLast
  IN  [systems |-> systems, config |-> r.fullConfig]

RECURSIVE StaffLoop(_)
StaffLoop(r) == IF r.i >= Len(r.allNotes) THEN r ELSE StaffLoop(StaffBody(r))

computeLayout(s, partial) == StaffResult(StaffLoop(StaffStart(s, partial)))

----------------------------------------------------------------------------
(* renderers/circlesLayout.ts *)

CIRCLES_DEFAULT_CONFIG ==
  [canvasWidth |-> Px(800), circleSize |-> Px(40), circleSpacing |-> Px(50),
   marginLeft |-> Px(20), marginTop |-> Px(30), rowSpacing |-> Px(80),
   lyricOffset |-> Px(25)]

durationToPositions(duration) ==
  CASE duration = "whole" -> 4
    [] duration = "half" -> 2
    [] duration = "quarter" -> 1
    [] duration = "eighth" -> 1
    [] duration = "sixteenth" -> 1
    [] OTHER -> 1

\* the optional lyric of a note, undefined when the note has none
LyricOf(note) == IF "lyric" \in DOMAIN note THEN note.lyric ELSE Undefined

\* computeNoteCircle with the lower pair of a sixteenth's grid on the upper line
computeNoteCircle_FlatSixteenth(note, startX, rowY, baseRadius, cfg, partIndex, noteIndex) ==
  LET entry(cx, radius) ==
        [cx |-> cx, cy |-> rowY, radius |-> radius, partIndex |-> partIndex,
         noteIndex |-> noteIndex, isRest |-> FALSE, octave |-> note.octave,
         lyric |-> LyricOf(note)]
      withSubs(e, subs) ==
        [k \in DOMAIN e \cup {"subCircles"} |-> IF k = "subCircles" THEN subs ELSE e[k]]
      sub(cx, cy, radius) == [cx |-> cx, cy |-> cy, radius |-> radius]
  IN  CASE note.duration = "whole" ->
             entry(startX + ((4 - 1) * cfg.circleSpacing) \div 2, (baseRadius * 18) \div 10)
        [] note.duration = "half" ->
             entry(startX + ((2 - 1) * cfg.circleSpacing) \div 2, (baseRadius * 14) \div 10)
        [] note.duration = "quarter" ->
             entry(startX, baseRadius)
        [] note.duration = "eighth" ->
             LET smallRadius == (baseRadius * 6) \div 10
                 gap == (smallRadius * 22) \div 10
             IN  withSubs(entry(startX, smallRadius),
                          << sub(startX - gap \div 2, rowY, smallRadius),
                             sub(startX + gap \div 2, rowY, smallRadius) >>)
        [] note.duration = "sixteenth" ->
             LET tinyRadius == (baseRadius * 4) \div 10
                 gap == (tinyRadius * 24) \div 10
             IN  withSubs(entry(startX, tinyRadius),
                          << sub(startX - gap \div 2, rowY - gap \div 2, tinyRadius),
                             sub(startX + gap \div 2, rowY - gap \div 2, tinyRadius),
                             sub(startX - gap \div 2, rowY - gap \div 2, tinyRadius),
                             sub(startX + gap \div 2, rowY - gap \div 2, tinyRadius) >>)
        [] OTHER -> entry(startX, baseRadius)

computeNoteCircle(note, startX, rowY, baseRadius, cfg, partIndex, noteIndex) ==
  LET entry(cx, radius) ==
        [cx |-> cx, cy |-> rowY, radius |-> radius, partIndex |-> partIndex,
         noteIndex |-> noteIndex, isRest |-> FALSE, octave |-> note.octave,
         lyric |-> LyricOf(note)]
      withSubs(e, subs) ==
        [k \in DOMAIN e \cup {"subCircles"} |-> IF k = "subCircles" THEN subs ELSE e[k]]
      sub(cx, cy, radius) == [cx |-> cx, cy |-> cy, radius |-> radius]
  IN  CASE note.duration = "whole" ->
             entry(startX + ((4 - 1) * cfg.circleSpacing) \div 2, (baseRadius * 18) \div 10)
        [] note.duration = "half" ->
             entry(startX + ((2 - 1) * cfg.circleSpacing) \div 2, (baseRadius * 14) \div 10)
        [] note.duration = "quarter" ->
             entry(startX, baseRadius)
        [] note.duration = "eighth" ->
             LET smallRadius == (baseRadius * 6) \div 10
                 gap == (smallRadius * 22) \div 10
             IN  withSubs(entry(startX, smallRadius),
                          << sub(startX - gap \div 2, rowY, smallRadius),
                             sub(startX + gap \div 2, rowY, smallRadius) >>)
        [] note.duration = "sixteenth" ->
             LET tinyRadius == (baseRadius * 4) \div 10
                 gap == (tinyRadius * 24) \div 10
             IN  withSubs(entry(startX, tinyRadius),
                          << sub(startX - gap \div 2, rowY - gap \div 2, tinyRadius),
                             sub(startX + gap \div 2, rowY - gap \div 2, tinyRadius),
                             sub(startX - gap \div 2, rowY + gap \div 2, tinyRadius),
                             sub(startX + gap \div 2, rowY + gap \div 2, tinyRadius) >>)
        [] OTHER -> entry(startX, baseRadius)

\* computeCirclesLayout up to the loop
CirclesStart(s, partial) ==
  LET fullConfig == MergeConfig(CIRCLES_DEFAULT_CONFIG, partial)
      baseRadius == fullConfig.circleSize \div 2
  IN  [fullConfig |-> fullConfig,
       baseRadius |-> baseRadius,
       allNotes |-> CollectAllNotes(s),
       rows |-> <<>>,
       currentRow |-> <<>>,
       currentX |-> fullConfig.marginLeft + baseRadius,
       currentRowY |-> fullConfig.marginTop + baseRadius,
       maxX |-> fullConfig.canvasWidth - fullConfig.marginLeft - baseRadius,
       i |-> 0]

\* CirclesWraps that also wraps when the slot ends exactly at maxX
CirclesWraps_AtEdge(r) ==
  LET cfg == r.fullConfig
      e == r.allNotes[r.i + 1]
      totalWidth == durationToPositions(e.note.duration) * cfg.circleSpacing
  IN  /\ r.currentX + totalWidth - cfg.circleSpacing \div 2 >= r.maxX
      /\ Len(r.currentRow) > 0

\* CirclesWraps without the test that the current row is non-empty
CirclesWraps_EvenWhenRowEmpty(r) ==
  LET cfg == r.fullConfig
      e == r.allNotes[r.i + 1]
      totalWidth == durationToPositions(e.note.duration) * cfg.circleSpacing
  IN  r.currentX + totalWidth - cfg.circleSpacing \div 2 > r.maxX

\* the wrap test of the loop, for the element at the head of the remaining notes
CirclesWraps(r) ==
  LET cfg == r.fullConfig
      e == r.allNotes[r.i + 1]
      totalWidth == durationToPositions(e.note.duration) * cfg.circleSpacing
  IN  /\ r.currentX + totalWidth - cfg.circleSpacing \div 2 > r.maxX
      /\ Len(r.currentRow) > 0

\* CirclesBody with a rest advancing by one position whatever its duration
CirclesBody_RestAdvancesOnePosition(r) ==
  LET cfg == r.fullConfig
      e == r.allNotes[r.i + 1]
      totalWidth == durationToPositions(e.note.duration) * cfg.circleSpacing
      wrap == CirclesWraps(r)
      rows == IF wrap
                THEN Append(r.rows, [startY |-> r.currentRowY, circles |-> r.currentRow])
                ELSE r.rows
      row == IF wrap THEN <<>> ELSE r.currentRow
      rowY == IF wrap THEN r.currentRowY + cfg.rowSpacing ELSE r.currentRowY
      x == IF wrap THEN cfg.marginLeft + r.baseRadius ELSE r.currentX
      circle ==
        IF e.note.type = "rest"
          THEN [cx |-> x + (totalWidth - cfg.circleSpacing) \div 2, cy |-> rowY,
                radius |-> 0, partIndex |-> e.partIndex, noteIndex |-> e.noteIndex,
                isRest |-> TRUE]
          ELSE computeNoteCircle(e.note, x, rowY, r.baseRadius, cfg,
                                 e.partIndex, e.noteIndex)
  IN  [r EXCEPT
         !.i = r.i + 1,
         !.rows = rows,
         !.currentRow = Append(row, circle),
         !.currentRowY = rowY,
         !.currentX = IF e.note.type = "rest" THEN x + cfg.circleSpacing ELSE x + totalWidth]

\* one iteration of for (const { note, partIndex, noteIndex } of allNotes)
CirclesBody(r) ==
  LET cfg == r.fullConfig
      e == r.allNotes[r.i + 1]
      totalWidth == durationToPositions(e.note.duration) * cfg.circleSpacing
      wrap == CirclesWraps(r)
      rows == IF wrap
                THEN Append(r.rows, [startY |-> r.currentRowY, circles |-> r.currentRow])
                ELSE r.rows
      row == IF wrap THEN <<>> ELSE r.currentRow
      rowY == IF wrap THEN r.currentRowY + cfg.rowSpacing ELSE r.currentRowY
      x == IF wrap THEN cfg.marginLeft + r.baseRadius ELSE r.currentX
      circle ==
        IF e.note.type = "rest"
          THEN [cx |-> x + (totalWidth - cfg.circleSpacing) \div 2, cy |-> rowY,
                radius |-> 0, partIndex |-> e.partIndex, noteIndex |-> e.noteIndex,
                isRest |-> TRUE]
          ELSE computeNoteCircle(e.note, x, rowY, r.baseRadius, cfg,
                                 e.partIndex, e.noteIndex)
  IN  [r EXCEPT
         !.i = r.i + 1,
         !.rows = rows,
         !.currentRow = Append(row, circle),
         !.currentRowY = rowY,
         !.currentX = x + totalWidth]

\* computeCirclesLayout after the loop
CirclesResult(r) ==
  LET withLast == IF Len(r.currentRow) > 0
                    THEN Append(r.rows, [startY |-> r.currentRowY, circles |-> r.currentRow])
                    ELSE r.rows
      rows == IF Len(withLast) = 0
                THEN Append(withLast, [startY |-> r.currentRowY, circles |-> <<>>])
                ELSE withLast
      lastRow == rows[Len(rows)]
  IN  [rows |-> rows, config |-> r.fullConfig,
       totalHeight |-> lastRow.startY + r.baseRadius + r.fullConfig.lyricOffset + Px(20)]

RECURSIVE CirclesLoop(_)
CirclesLoop(r) == IF r.i >= Len(r.allNotes) THEN r ELSE CirclesLoop(CirclesBody(r))

computeCirclesLayout(s, partial) == CirclesResult(CirclesLoop(CirclesStart(s, partial)))

----------------------------------------------------------------------------
(* store/ScoreContext.tsx: the selection state handed to the renderers *)

\* initialSelectionState = null
NullSelection == [selected |-> FALSE]

\* SELECT_NOTE: { partIndex, noteIndex }
Selected(p, n) == [selected |-> TRUE, partIndex |-> p, noteIndex |-> n]

\* part?.notes[noteIndex]: the element, or undefined when either index is off
HasElement(s, p, n) ==
  /\ p + 1 \in DOMAIN s.parts
  /\ n + 1 \in DOMAIN s.parts[p + 1].notes

----------------------------------------------------------------------------
(* renderers/StaffRenderer.tsx *)

\* StaffRenderer's svgHeight: lastSystem.startY + staffHeight + marginTop, or
\* marginTop + staffHeight when there is no system
staffSvgHeight(layout) ==
  IF Len(layout.systems) > 0
    THEN layout.systems[Len(layout.systems)].startY + layout.config.staffHeight
           + layout.config.marginTop
    ELSE layout.config.marginTop + layout.config.staffHeight

\* staffPositionToY: bottomLineY - staffPosition * (staffLineSpacing / 2)
staffPositionToY(staffPosition, systemY, cfg) ==
  LET bottomLineY == systemY + 4 * cfg.staffLineSpacing
  IN  bottomLineY - staffPosition * (cfg.staffLineSpacing \div 2)

\* one for loop of renderLedgerLines: pos from the start in steps of 2 while pos <= y
\* (upwards), or in steps of -2 while pos >= y (downwards)
RECURSIVE LedgerLoop(_, _, _, _, _)
LedgerLoop(pos, step, y, systemY, cfg) ==
  IF (step > 0 /\ pos <= y) \/ (step < 0 /\ pos >= y)
    THEN <<[pos |-> pos, y1 |-> staffPositionToY(pos, systemY, cfg)]>>
           \o LedgerLoop(pos + step, step, y, systemY, cfg)
    ELSE <<>>

\* LedgerLoop starting the lower loop at the staff's bottom line
renderLedgerLines_FromBottomLine(noteLayout, system, cfg) ==
  LET y == noteLayout.y
  IN  (IF y > 8 THEN LedgerLoop(10, 2, y, system.startY, cfg) ELSE <<>>)
        \o (IF y < 0 THEN LedgerLoop(0, -2, y, system.startY, cfg)
                     ELSE <<>>)

\* renderLedgerLines: the lines above the staff, then the lines below it
renderLedgerLines(noteLayout, system, cfg) ==
  LET y == noteLayout.y
  IN  (IF y > 8 THEN LedgerLoop(10, 2, y, system.startY, cfg) ELSE <<>>)
        \o (IF y < 0 THEN LedgerLoop(-2, -2, y, system.startY, cfg)
                     ELSE <<>>)

\* renderNote: the <g> of one element; highlights counts its blue selection rectangles,
\* pixelY is the centre of the notehead or rest, ledgers the ledger lines drawn
renderNote(noteLayout, system, note, sel, cfg) ==
  LET isSelected ==
        /\ sel.selected
        /\ sel.partIndex = noteLayout.partIndex
        /\ sel.noteIndex = noteLayout.noteIndex
      rest == noteLayout.isRest \/ note.type = "rest"
  IN  [partIndex |-> noteLayout.partIndex, noteIndex |-> noteLayout.noteIndex,
       symbol |-> IF rest THEN "rest" ELSE "notehead",
       highlights |-> IF isSelected THEN 1 ELSE 0,
       staffPosition |-> noteLayout.y,
       pixelY |-> staffPositionToY(noteLayout.y, system.startY, cfg),
       ledgers |-> IF rest THEN <<>> ELSE renderLedgerLines(noteLayout, system, cfg)]

\* renderSystem: note ? renderNote(noteLayout, system, note) : null, nulls render nothing
renderSystem(system, s, sel, cfg) ==
  LET present == SelectSeq(system.notes, LAMBDA nl : HasElement(s, nl.partIndex, nl.noteIndex))
  IN  [j \in 1..Len(present) |->
         renderNote(present[j], system,
                    s.parts[present[j].partIndex + 1].notes[present[j].noteIndex + 1],
                    sel, cfg)]

RECURSIVE renderSystems(_, _, _, _)
renderSystems(systems, s, sel, cfg) ==
  IF systems = <<>> THEN <<>>
  ELSE renderSystem(Head(systems), s, sel, cfg) \o renderSystems(Tail(systems), s, sel, cfg)

\* the component: layout.systems.map(renderSystem) over computeLayout(score, { canvasWidth })
StaffRenderer(layout, s, sel) == renderSystems(layout.systems, s, sel, layout.config)

----------------------------------------------------------------------------
(* renderers/CirclesRenderer.tsx *)

\* is an element rendered at all: rests and missing elements return null
CircleRendered(circle, s) ==
  /\ ~circle.isRest
  /\ HasElement(s, circle.partIndex, circle.noteIndex)
  /\ s.parts[circle.partIndex + 1].notes[circle.noteIndex + 1].type # "rest"

\* renderCircleElement comparing the note index only
renderCircleElement_IgnoresPart(circle, s, sel) ==
  LET isSelected ==
        /\ sel.selected
        /\ sel.noteIndex = circle.noteIndex
      grouped == "subCircles" \in DOMAIN circle /\ Len(circle.subCircles) > 0
  IN  [partIndex |-> circle.partIndex, noteIndex |-> circle.noteIndex,
       symbol |-> IF grouped THEN "sub-circles" ELSE "circle",
       highlights |-> IF isSelected THEN 1 ELSE 0,
       cx |-> circle.cx, cy |-> circle.cy, radius |-> circle.radius,
       drawn |-> IF grouped THEN circle.subCircles
                            ELSE <<[cx |-> circle.cx, cy |-> circle.cy,
                                    radius |-> circle.radius]>>,
       ringRadius |-> circle.radius + (IF grouped THEN Px(8) ELSE Px(4))]

\* renderCircleElement: the <g> of one note; highlights counts its selection rings,
\* drawn lists the circles drawn for the note (its sub-circles, or its one circle), and
\* ringRadius is the r of the selection ring centred at (cx, cy)
renderCircleElement(circle, s, sel) ==
  LET isSelected ==
        /\ sel.selected
        /\ sel.partIndex = circle.partIndex
        /\ sel.noteIndex = circle.noteIndex
      grouped == "subCircles" \in DOMAIN circle /\ Len(circle.subCircles) > 0
  IN  [partIndex |-> circle.partIndex, noteIndex |-> circle.noteIndex,
       symbol |-> IF grouped THEN "sub-circles" ELSE "circle",
       highlights |-> IF isSelected THEN 1 ELSE 0,
       cx |-> circle.cx, cy |-> circle.cy, radius |-> circle.radius,
       drawn |-> IF grouped THEN circle.subCircles
                            ELSE <<[cx |-> circle.cx, cy |-> circle.cy,
                                    radius |-> circle.radius]>>,
       ringRadius |-> circle.radius + (IF grouped THEN Px(8) ELSE Px(4))]

renderRow(row, s, sel) ==
  LET present == SelectSeq(row.circles, LAMBDA c : CircleRendered(c, s))
  IN  [j \in 1..Len(present) |-> renderCircleElement(present[j], s, sel)]

RECURSIVE renderRows(_, _, _)
renderRows(rows, s, sel) ==
  IF rows = <<>> THEN <<>>
  ELSE renderRow(Head(rows), s, sel) \o renderRows(Tail(rows), s, sel)

\* the component: layout.rows.map(...) over computeCirclesLayout(score, { canvasWidth })
CirclesRenderer(layout, s, sel) == renderRows(layout.rows, s, sel)

----------------------------------------------------------------------------
(* JavaScript numbers and JSON text, as JSON.parse and JSON.stringify treat them *)

\* a number is num / den: den = 1 for an integer, 10 for tenths, 0 for +-Infinity
Num(n) == [num |-> n, den |-> 1]
Tenths(n) == [num |-> n, den |-> 10]
Infinity == [num |-> 1, den |-> 0]

\* the nodes of a JSON text; a number literal is digits * 10^exp
JString(s) == [t |-> "string", s |-> s]
JNumber(digits, exp) == [t |-> "number", digits |-> digits, exp |-> exp]
JNull == [t |-> "null"]
JBool(b) == [t |-> "boolean", b |-> b]
JArray(items) == [t |-> "array", items |-> items]
JObject(fields) == [t |-> "object", fields |-> fields]

\* the values JSON.parse returns: the same nodes, a number holding its value
VNumber(x) == [t |-> "number", n |-> x]
VUndefined == [t |-> "undefined"]

\* an element of notes that is undefined (a hole left by splice)
UndefinedElement == [type |-> "undefined"]

\* the value of a number literal: a double, so Infinity beyond 1.8e308
ParseNumber(digits, exp) ==
  IF digits = 0 THEN Num(0)
  ELSE IF exp > 308 THEN [num |-> IF digits > 0 THEN 1 ELSE -1, den |-> 0]
  ELSE IF exp = -1
    THEN IF digits % 10 = 0 THEN Num(digits \div 10) ELSE Tenths(digits)
    ELSE Num(digits)

\* JSON.parse(text) of a well-formed text
RECURSIVE JSONparse(_)
JSONparse(node) ==
  CASE node.t = "number" -> VNumber(ParseNumber(node.digits, node.exp))
    [] node.t = "array" -> JArray([j \in DOMAIN node.items |-> JSONparse(node.items[j])])
    [] node.t = "object" ->
         JObject([k \in DOMAIN node.fields |-> JSONparse(node.fields[k])])
    [] OTHER -> node

\* JSON.stringify of a number: non-finite numbers are written as null
StringifyNumber(x) ==
  IF x.den = 0 THEN JNull
  ELSE IF x.den = 1 THEN JNumber(x.num, 0)
  ELSE JNumber(x.num, -1)

\* JSON.stringify of a note or rest: every own property; undefined in an array is null
StringifyNote(e) ==
  IF e.type = "undefined" THEN JNull
  ELSE JObject([k \in DOMAIN e |-> IF k = "accented" THEN JBool(e[k]) ELSE JString(e[k])])

StringifyPart(part) ==
  JObject([k \in DOMAIN part |->
             IF k = "notes"
               THEN JArray([j \in DOMAIN part.notes |-> StringifyNote(part.notes[j])])
               ELSE JString(part[k])])

\* JSON.stringify(score, null, 2)
StringifyScore(s) ==
  JObject([k \in DOMAIN s |->
             CASE k = "timeSignature" ->
                    JObject([beats |-> StringifyNumber(s.timeSignature.beats),
                             beatValue |-> StringifyNumber(s.timeSignature.beatValue)])
               [] k = "parts" ->
                    JArray([j \in DOMAIN s.parts |-> StringifyPart(s.parts[j])])
               [] k = "tempo" -> StringifyNumber(s.tempo)
               [] OTHER -> JString(s[k])])

----------------------------------------------------------------------------
(* export/jsonPersistence.ts *)

VALID_PITCHES == {"C", "D", "E", "F", "G", "A", "H"}
VALID_OCTAVES == {"lower", "middle", "upper"}
VALID_DURATIONS == {"whole", "half", "quarter", "eighth", "sixteenth"}
VALID_RENDERING_MODES == {"staff", "circles"}
VALID_CLEFS == {"treble", "bass"}

\* a file: one that cannot be read, one whose text is not JSON, one holding a JSON text
UnreadableFile == [kind |-> "unreadable"]
GarbageFile == [kind |-> "garbage"]
JsonFile(doc) == [kind |-> "json", doc |-> doc]

\* saveScore: the file the download holds
saveScore(s) == JsonFile(StringifyScore(s))

\* typeof v
TypeOf(v) == IF v.t \in {"null", "array", "object"} THEN "object" ELSE v.t

\* obj.k: undefined when obj has no such property
Get(obj, k) ==
  IF obj.t = "object" /\ k \in DOMAIN obj.fields THEN obj.fields[k] ELSE VUndefined

\* typeof v !== "string" || !VALID.includes(v)
NotOneOf(v, valid) == v.t # "string" \/ v.s \notin valid

Returned(value) == [ok |-> TRUE, value |-> value]

\* throw new Error(...): the message, the field it names and where that field is
Thrown(message, field, partIndex, noteIndex) ==
  [ok |-> FALSE, message |-> message, field |-> field,
   partIndex |-> partIndex, noteIndex |-> noteIndex]

validateNoteOrRest(entry, partIndex, noteIndex) ==
  IF TypeOf(entry) # "object" \/ entry.t = "null"
    THEN Thrown("must be an object", "notes[]", partIndex, noteIndex)
  ELSE IF Get(entry, "type").t = "string" /\ Get(entry, "type").s = "note"
    THEN
      IF NotOneOf(Get(entry, "pitch"), VALID_PITCHES)
        THEN Thrown("invalid pitch", "pitch", partIndex, noteIndex)
      ELSE IF NotOneOf(Get(entry, "octave"), VALID_OCTAVES)
        THEN Thrown("invalid octave", "octave", partIndex, noteIndex)
      ELSE IF NotOneOf(Get(entry, "duration"), VALID_DURATIONS)
        THEN Thrown("invalid duration", "duration", partIndex, noteIndex)
      ELSE IF Get(entry, "lyric").t \notin {"undefined", "string"}
        THEN Thrown("lyric must be a string if provided", "lyric", partIndex, noteIndex)
      ELSE IF Get(entry, "accented").t \notin {"undefined", "boolean"}
        THEN Thrown("accented must be a boolean if provided", "accented",
                    partIndex, noteIndex)
      ELSE
        LET optional == { k \in {"lyric", "accented"} : Get(entry, k).t # "undefined" }
        IN  Returned([k \in {"type", "pitch", "octave", "duration"} \cup optional |->
                        CASE k = "type" -> "note"
                          [] k = "accented" -> Get(entry, k).b
                          [] OTHER -> Get(entry, k).s])
  ELSE IF Get(entry, "type").t = "string" /\ Get(entry, "type").s = "rest"
    THEN
      IF NotOneOf(Get(entry, "duration"), VALID_DURATIONS)
        THEN Thrown("invalid duration", "duration", partIndex, noteIndex)
        ELSE Returned([type |-> "rest", duration |-> Get(entry, "duration").s])
  ELSE Thrown("invalid type", "type", partIndex, noteIndex)

\* obj.notes.map((n, ni) => validateNoteOrRest(n, index, ni)): the first throw ends it
RECURSIVE validateNotes(_, _, _)
validateNotes(items, index, j) ==
  IF j > Len(items) THEN Returned(<<>>)
  ELSE LET first == validateNoteOrRest(items[j], index, j - 1)
       IN  IF ~first.ok THEN first
           ELSE LET others == validateNotes(items, index, j + 1)
                IN  IF ~others.ok THEN others
                    ELSE Returned(<<first.value>> \o others.value)

validatePart(entry, index) ==
  IF TypeOf(entry) # "object" \/ entry.t = "null"
    THEN Thrown("must be an object", "parts[]", index, -1)
  ELSE IF Get(entry, "notes").t # "array"
    THEN Thrown("must have a notes array", "notes", index, -1)
  ELSE IF Get(entry, "name").t \notin {"undefined", "string"}
    THEN Thrown("name must be a string if provided", "name", index, -1)
  ELSE
    LET notes == validateNotes(Get(entry, "notes").items, index, 1)
    IN  IF ~notes.ok THEN notes
        ELSE IF Get(entry, "name").t = "undefined"
          THEN Returned([notes |-> notes.value])
          ELSE Returned([notes |-> notes.value, name |-> Get(entry, "name").s])

\* obj.parts.map((p, i) => validatePart(p, i))
RECURSIVE validateParts(_, _)
validateParts(items, i) ==
  IF i > Len(items) THEN Returned(<<>>)
  ELSE LET first == validatePart(items[i], i - 1)
       IN  IF ~first.ok THEN first
           ELSE LET others == validateParts(items, i + 1)
                IN  IF ~others.ok THEN others
                    ELSE Returned(<<first.value>> \o others.value)

\* loadScore(file): what the promise settles with
loadScore(file) ==
  IF file.kind = "unreadable" THEN Thrown("Failed to read file", "", -1, -1)
  ELSE IF file.kind = "garbage" THEN Thrown("Invalid JSON file", "", -1, -1)
  ELSE
    LET obj == JSONparse(file.doc)
        ts == Get(obj, "timeSignature")
    IN  IF obj.t # "object"
          THEN Thrown("Score must be a JSON object", "", -1, -1)
        ELSE IF Get(obj, "title").t # "string"
          THEN Thrown("Score must have a title string", "title", -1, -1)
        ELSE IF NotOneOf(Get(obj, "renderingMode"), VALID_RENDERING_MODES)
          THEN Thrown("Invalid renderingMode", "renderingMode", -1, -1)
        ELSE IF NotOneOf(Get(obj, "clef"), VALID_CLEFS)
          THEN Thrown("Invalid clef", "clef", -1, -1)
        ELSE IF TypeOf(ts) # "object" \/ ts.t = "null"
          THEN Thrown("Score must have a timeSignature object", "timeSignature", -1, -1)
        ELSE IF Get(ts, "beats").t # "number" \/ Get(ts, "beatValue").t # "number"
          THEN Thrown("timeSignature must have numeric beats and beatValue",
                      "timeSignature", -1, -1)
        ELSE IF Get(obj, "parts").t # "array"
          THEN Thrown("Score must have a parts array", "parts", -1, -1)
        ELSE
          LET parts == validateParts(Get(obj, "parts").items, 1)
              built == [title |-> Get(obj, "title").s,
                        renderingMode |-> Get(obj, "renderingMode").s,
                        timeSignature |-> [beats |-> Get(ts, "beats").n,
                                           beatValue |-> Get(ts, "beatValue").n],
                        clef |-> Get(obj, "clef").s,
                        parts |-> parts.value]
          IN  IF ~parts.ok THEN parts
              ELSE IF Get(obj, "tempo").t = "undefined" THEN Returned(built)
              ELSE IF Get(obj, "tempo").t # "number"
                THEN Thrown("tempo must be a number if provided", "tempo", -1, -1)
              ELSE Returned([k \in DOMAIN built \cup {"tempo"} |->
                               IF k = "tempo" THEN Get(obj, "tempo").n ELSE built[k]])

----------------------------------------------------------------------------
(* store/scoreReducer.ts *)

initialScoreState ==
  [title |-> "", renderingMode |-> "staff",
   timeSignature |-> [beats |-> Num(4), beatValue |-> Num(4)],
   clef |-> "treble", parts |-> <<[notes |-> <<>>]>>]

\* array[i] of a 0-based index: is there an element
Defined(array, i) == i + 1 \in DOMAIN array

\* array.splice(start, deleteCount): the index splice really starts at
SpliceStart(len, start) ==
  IF start < 0 THEN (IF len + start < 0 THEN 0 ELSE len + start)
  ELSE IF start > len THEN len ELSE start

\* the array after array.splice(start, 1)
SpliceOut(array, start) ==
  LET at == SpliceStart(Len(array), start)
  IN  IF at >= Len(array) THEN array
      ELSE SubSeq(array, 1, at) \o SubSeq(array, at + 2, Len(array))

\* const [movedNote] = array.splice(start, 1): undefined when nothing was removed
SplicedOut(array, start) ==
  LET at == SpliceStart(Len(array), start)
  IN  IF at >= Len(array) THEN UndefinedElement ELSE array[at + 1]

\* the array after array.splice(start, 0, item)
SpliceIn(array, start, item) ==
  LET at == SpliceStart(Len(array), start)
  IN  SubSeq(array, 1, at) \o <<item>> \o SubSeq(array, at + 1, Len(array))

\* Spread keeping the first fields instead of the later ones
Spread_FirstWins(object, changes) ==
  [k \in DOMAIN object \cup DOMAIN changes |->
     IF k \in DOMAIN object THEN object[k] ELSE changes[k]]

\* { ...object, ...changes }
Spread(object, changes) ==
  [k \in DOMAIN object \cup DOMAIN changes |->
     IF k \in DOMAIN changes THEN changes[k] ELSE object[k]]

\* delete object.k
Delete(object, key) == [k \in DOMAIN object \ {key} |-> object[k]]

\* what a call of the reducer leaves: the value it returned, or the error it threw,
\* and the object it was given as that object is after the call
ReducerReturned(value, givenAfter) == [threw |-> FALSE, returned |-> value, given |-> givenAfter]
ReducerThrew(error, givenAfter) == [threw |-> TRUE, error |-> error, given |-> givenAfter]

\* newParts[partIndex] = { ...part, notes: newNotes } on a copy of st.parts
WithNotes(st, partIndex, newNotes) ==
  [st EXCEPT !.parts = [st.parts EXCEPT ![partIndex + 1] =
                             [st.parts[partIndex + 1] EXCEPT !.notes = newNotes]]]

\* case "ADD_NOTE" and case "ADD_REST": st.parts[0].notes of no part is a TypeError
AppendToFirstPart(st, element) ==
  IF ~Defined(st.parts, 0)
    THEN ReducerThrew("TypeError: Cannot read properties of undefined (reading 'notes')",
                      st)
    ELSE ReducerReturned(
           [st EXCEPT !.parts =
              <<[st.parts[1] EXCEPT !.notes = Append(st.parts[1].notes, element)]>>
              \o Tail(st.parts)],
           st)

\* IsNoteAt letting every element through, rests included
IsNoteAt_AnyElement(st, partIndex, noteIndex) ==
  /\ Defined(st.parts, partIndex)
  /\ Defined(st.parts[partIndex + 1].notes, noteIndex)
  /\ st.parts[partIndex + 1].notes[noteIndex + 1].type # "undefined"

\* part && existingNote && existingNote.type === "note"
IsNoteAt(st, partIndex, noteIndex) ==
  /\ Defined(st.parts, partIndex)
  /\ Defined(st.parts[partIndex + 1].notes, noteIndex)
  /\ st.parts[partIndex + 1].notes[noteIndex + 1].type = "note"

\* FilterOut removing the element after the addressed one
FilterOut_NextIndex(notes, noteIndex) ==
  IF noteIndex + 2 \in DOMAIN notes
    THEN SubSeq(notes, 1, noteIndex + 1) \o SubSeq(notes, noteIndex + 3, Len(notes))
    ELSE notes

\* part.notes.filter((_, i) => i !== noteIndex)
FilterOut(notes, noteIndex) ==
  IF noteIndex + 1 \in DOMAIN notes
    THEN SubSeq(notes, 1, noteIndex) \o SubSeq(notes, noteIndex + 2, Len(notes))
    ELSE notes

scoreReducer(st, action) ==
  CASE action.type = "ADD_NOTE" ->
         AppendToFirstPart(st,
           IF "accented" \in DOMAIN action.payload /\ action.payload.accented
             THEN [type |-> "note", pitch |-> action.payload.pitch,
                   octave |-> action.payload.octave, duration |-> action.payload.duration,
                   accented |-> TRUE]
             ELSE [type |-> "note", pitch |-> action.payload.pitch,
                   octave |-> action.payload.octave, duration |-> action.payload.duration])
    [] action.type = "ADD_REST" ->
         AppendToFirstPart(st, [type |-> "rest", duration |-> action.payload.duration])
    [] action.type = "SET_TITLE" ->
         ReducerReturned(Spread(st, [title |-> action.payload]), st)
    [] action.type = "SET_TIME_SIGNATURE" ->
         ReducerReturned(Spread(st, [timeSignature |-> action.payload]), st)
    [] action.type = "SET_CLEF" ->
         ReducerReturned(Spread(st, [clef |-> action.payload]), st)
    [] action.type = "SET_RENDERING_MODE" ->
         ReducerReturned(Spread(st, [renderingMode |-> action.payload]), st)
    [] action.type = "LOAD_SCORE" ->
         ReducerReturned(action.payload, st)
    [] action.type = "EDIT_NOTE" ->
         LET partIndex == action.payload.partIndex
             noteIndex == action.payload.noteIndex
         IN  IF ~IsNoteAt(st, partIndex, noteIndex) THEN ReducerReturned(st, st)
             ELSE
               LET part == st.parts[partIndex + 1]
                   updatedNote == Spread(part.notes[noteIndex + 1], action.payload.changes)
                   newNotes == [part.notes EXCEPT ![noteIndex + 1] = updatedNote]
               IN  ReducerReturned(WithNotes(st, partIndex, newNotes), st)
    [] action.type = "DELETE_NOTE" ->
         LET partIndex == action.payload.partIndex
             noteIndex == action.payload.noteIndex
         IN  IF ~Defined(st.parts, partIndex) THEN ReducerReturned(st, st)
             ELSE
               LET part == st.parts[partIndex + 1]
                   newNotes == FilterOut(part.notes, noteIndex)
               IN  ReducerReturned(WithNotes(st, partIndex, newNotes), st)
    [] action.type = "REORDER_NOTE" ->
         LET partIndex == action.payload.partIndex
         IN  IF ~Defined(st.parts, partIndex) THEN ReducerReturned(st, st)
             ELSE
               LET part == st.parts[partIndex + 1]
                   movedNote == SplicedOut(part.notes, action.payload.fromIndex)
                   newNotes == SpliceIn(SpliceOut(part.notes, action.payload.fromIndex),
                                        action.payload.toIndex, movedNote)
               IN  ReducerReturned(WithNotes(st, partIndex, newNotes), st)
    [] action.type = "SET_LYRIC" ->
         LET partIndex == action.payload.partIndex
             noteIndex == action.payload.noteIndex
             lyric == action.payload.lyric
         IN  IF ~IsNoteAt(st, partIndex, noteIndex) THEN ReducerReturned(st, st)
             ELSE
               LET part == st.parts[partIndex + 1]
                   existingNote == part.notes[noteIndex + 1]
                   updatedNote == IF lyric # ""
                                    THEN Spread(existingNote, [lyric |-> lyric])
                                    ELSE Delete(Spread(existingNote, <<>>), "lyric")
                   newNotes == [part.notes EXCEPT ![noteIndex + 1] = updatedNote]
               IN  ReducerReturned(WithNotes(st, partIndex, newNotes), st)
    [] OTHER -> ReducerReturned(st, st)

----------------------------------------------------------------------------
(* export/imageExport.ts *)

\* the characters [a-z0-9] matches with the flag i
Alphanumeric ==
  { "a", "b", "c", "d", "e", "f", "g", "h", "i", "j", "k", "l", "m", "n", "o", "p", "q",
    "r", "s", "t", "u", "v", "w", "x", "y", "z", "A", "B", "C", "D", "E", "F", "G", "H",
    "I", "J", "K", "L", "M", "N", "O", "P", "Q", "R", "S", "T", "U", "V", "W", "X", "Y",
    "Z", "0", "1", "2", "3", "4", "5", "6", "7", "8", "9" }

\* the white space String.prototype.trim removes, as far as the titles here have any
WhiteSpace == { " " }

\* title.trim(): a title is a sequence of characters
RECURSIVE TrimStart(_)
TrimStart(chars) ==
  IF chars # <<>> /\ Head(chars) \in WhiteSpace THEN TrimStart(Tail(chars)) ELSE chars

RECURSIVE TrimEnd(_)
TrimEnd(chars) ==
  IF chars # <<>> /\ chars[Len(chars)] \in WhiteSpace
    THEN TrimEnd(SubSeq(chars, 1, Len(chars) - 1))
    ELSE chars

Trim(chars) == TrimEnd(TrimStart(chars))

sanitizeFilename(title) ==
  LET trimmed == Trim(title)
  IN  IF trimmed = <<>> THEN <<"s", "c", "o", "r", "e">>
      ELSE [j \in DOMAIN trimmed |-> IF trimmed[j] \in Alphanumeric THEN trimmed[j] ELSE "_"]

\* exportPng up to the return of the promise: the canvas at twice the size of the svg,
\* 800 x 600 where the svg has no size; settled lists the calls of resolve and reject,
\* downloads the files handed to triggerDownload, browser the events delivered so far
ExportStart(title, svgWidth, svgHeight) ==
  [phase |-> "loading", title |-> title,
   canvas |-> [width |-> (IF svgWidth # 0 THEN svgWidth ELSE 800) * 2,
               height |-> (IF svgHeight # 0 THEN svgHeight ELSE 600) * 2],
   settled |-> <<>>, downloads |-> <<>>, revoked |-> 0, browser |-> <<>>]

\* img.onload, run with the context canvas.getContext('2d') returns
OnLoad(call, hasContext) ==
  IF ~hasContext
    THEN [call EXCEPT !.phase = "done",
                      !.settled = Append(@, "rejected: Canvas context unavailable")]
    ELSE [call EXCEPT !.phase = "converting"]

\* img.onerror
OnError(call) ==
  [call EXCEPT !.phase = "done", !.revoked = @ + 1,
               !.settled = Append(@, "rejected: SVG rendering failed")]

\* OnBlob triggering the download before it looks at the blob
OnBlob_DownloadsFirst(call, hasBlob) ==
  IF ~hasBlob
    THEN [call EXCEPT !.phase = "done",
                      !.downloads = Append(@, sanitizeFilename(call.title) \o <<".png">>),
                      !.settled = Append(@, "rejected: PNG conversion failed")]
    ELSE [call EXCEPT !.phase = "done",
                      !.downloads = Append(@, sanitizeFilename(call.title) \o <<".png">>),
                      !.revoked = @ + 1,
                      !.settled = Append(@, "resolved")]

\* the callback of canvas.toBlob, run with the blob or with null
OnBlob(call, hasBlob) ==
  IF ~hasBlob
    THEN [call EXCEPT !.phase = "done",
                      !.settled = Append(@, "rejected: PNG conversion failed")]
    ELSE [call EXCEPT !.phase = "done",
                      !.downloads = Append(@, sanitizeFilename(call.title) \o <<".png">>),
                      !.revoked = @ + 1,
                      !.settled = Append(@, "resolved")]

----------------------------------------------------------------------------
(* Inputs *)

\* components/Toolbar.tsx: the time signatures the editor offers
TIME_SIGNATURES ==
  { [beats |-> 2, beatValue |-> 4], [beats |-> 3, beatValue |-> 4],
    [beats |-> 4, beatValue |-> 4], [beats |-> 6, beatValue |-> 8] }

SeqsUpTo(S, n) == UNION { [1..k -> S] : k \in 0..n }

RECURSIVE TotalNotes(_)
TotalNotes(parts) ==
  IF parts = <<>> THEN 0 ELSE Len(Head(parts).notes) + TotalNotes(Tail(parts))

\* one element of every duration, and a rest
Elements ==
  { NoteWithLyric("C", "lower", "whole", "La"),
    AccentedNote("D", "middle", "half"),
    Note("G", "upper", "quarter"),
    Note("A", "middle", "eighth"),
    Note("H", "upper", "sixteenth"),
    Rest("quarter") }

\* the elements of the multi-part scores
PartElements == { Note("E", "lower", "half"), Rest("whole") }

SinglePartParts == { <<[notes |-> ns]>> : ns \in SeqsUpTo(Elements, MaxNotes) }

MultiPartParts ==
  { ps \in SeqsUpTo({ [notes |-> ns] : ns \in SeqsUpTo(PartElements, MaxNotes) }, MaxParts) :
      TotalNotes(ps) <= MaxNotes }

\* one note of every pitch in every register
SingleNoteParts == { <<[notes |-> <<Note(p, o, "quarter")>>]>> : p \in Pitch, o \in Octave }

\* staffLayout.test.ts: 4 quarters (4/4), 6 quarters (3/4), 12 eighths (6/8)
ExampleParts ==
  { <<[notes |-> [j \in 1..4 |-> Note("C", "middle", "quarter")]]>>,
    <<[notes |-> [j \in 1..6 |-> Note("C", "middle", "quarter")]]>>,
    <<[notes |-> [j \in 1..12 |-> Note("C", "middle", "eighth")]]>> }

PartsSet == SinglePartParts \cup MultiPartParts \cup SingleNoteParts \cup ExampleParts

\* the selections handed to a renderer: none, the first element, the third element of
\* part 0 (past the end of a shorter part), the first element of part 1 (past the end
\* of a single-part score)
Selections == { NullSelection, Selected(0, 0), Selected(0, 2), Selected(1, 0) }

\* the canvas widths of the calls; the default width is Px(800)
Widths == { Px(150), Px(155), Px(200), Px(800) }

\* the calls: time signature, clef and the partial configuration handed over
Contexts ==
  { [timeSignature |-> [beats |-> 4, beatValue |-> 4], clef |-> "treble", config |-> <<>>],
    [timeSignature |-> [beats |-> 4, beatValue |-> 4], clef |-> "bass",
     config |-> [canvasWidth |-> Px(150)]],
    [timeSignature |-> [beats |-> 3, beatValue |-> 4], clef |-> "treble",
     config |-> [canvasWidth |-> Px(155)]],
    [timeSignature |-> [beats |-> 3, beatValue |-> 4], clef |-> "bass",
     config |-> [canvasWidth |-> Px(200)]],
    [timeSignature |-> [beats |-> 6, beatValue |-> 8], clef |-> "treble",
     config |-> [canvasWidth |-> Px(200)]],
    [timeSignature |-> [beats |-> 2, beatValue |-> 4], clef |-> "bass",
     config |-> [canvasWidth |-> Px(155)]],
    [timeSignature |-> [beats |-> 6, beatValue |-> 8], clef |-> "bass",
     config |-> [canvasWidth |-> Px(150), noteSpacing |-> Px(25)]],
    [timeSignature |-> [beats |-> 2, beatValue |-> 4], clef |-> "treble",
     config |-> [canvasWidth |-> Px(155), circleSize |-> Px(30), circleSpacing |-> Px(35)]] }

\* the payloads of the editing actions
NotePayloads ==
  { [pitch |-> "C", octave |-> "middle", duration |-> "quarter"],
    [pitch |-> "H", octave |-> "upper", duration |-> "eighth", accented |-> TRUE],
    [pitch |-> "E", octave |-> "lower", duration |-> "half", accented |-> FALSE] }

RestPayloads == { [duration |-> "half"] }

Titles == { "", "Etude" }

\* parseInt of the two halves of a TIME_SIGNATURES value
TimeSignaturePayloads ==
  { [beats |-> Num(ts.beats), beatValue |-> Num(ts.beatValue)] : ts \in TIME_SIGNATURES }

\* (partIndex, noteIndex) of the targeted actions: notes, rests, indices past the end
\* of a part or of the parts, negative indices
Targets ==
  { [partIndex |-> 0, noteIndex |-> 0], [partIndex |-> 0, noteIndex |-> 1],
    [partIndex |-> 0, noteIndex |-> 2], [partIndex |-> 1, noteIndex |-> 0],
    [partIndex |-> 0, noteIndex |-> 4], [partIndex |-> 2, noteIndex |-> 0],
    [partIndex |-> 0, noteIndex |-> -1], [partIndex |-> -1, noteIndex |-> 0] }

Changes ==
  { [duration |-> "sixteenth"], [pitch |-> "F", octave |-> "upper", accented |-> TRUE] }

Lyrics == { "la", "" }

Reorders ==
  { [partIndex |-> 0, fromIndex |-> 0, toIndex |-> 2],
    [partIndex |-> 0, fromIndex |-> 3, toIndex |-> 0],
    [partIndex |-> 0, fromIndex |-> 7, toIndex |-> 0],
    [partIndex |-> 0, fromIndex |-> -1, toIndex |-> 0],
    [partIndex |-> 5, fromIndex |-> 0, toIndex |-> 0] }

\* scores that satisfy the data model: two parts with every optional field, no part
\* at all, a fractional tempo and an empty lyric
SongScore ==
  [title |-> "Song", tempo |-> Num(120), renderingMode |-> "circles",
   timeSignature |-> [beats |-> Num(3), beatValue |-> Num(4)], clef |-> "bass",
   parts |-> << [name |-> "Voice",
                 notes |-> << NoteWithLyric("C", "lower", "whole", "La"),
                              Rest("quarter"),
                              AccentedNote("D", "middle", "half"),
                              [type |-> "note", pitch |-> "H", octave |-> "upper",
                               duration |-> "eighth", accented |-> FALSE] >>],
                [notes |-> << Note("G", "upper", "sixteenth"), Rest("half") >>] >>]

EmptyScore ==
  [title |-> "", renderingMode |-> "staff",
   timeSignature |-> [beats |-> Num(4), beatValue |-> Num(4)], clef |-> "treble",
   parts |-> <<>>]

SlowScore ==
  [title |-> "Largo", tempo |-> Tenths(405), renderingMode |-> "staff",
   timeSignature |-> [beats |-> Num(6), beatValue |-> Num(8)], clef |-> "treble",
   parts |-> << [notes |-> << NoteWithLyric("A", "middle", "quarter", "") >>] >>]

\* a JSON object with one property set, or removed
WithField(obj, key, node) ==
  JObject([k \in DOMAIN obj.fields \cup {key} |-> IF k = key THEN node ELSE obj.fields[k]])

WithoutField(obj, key) == JObject([k \in DOMAIN obj.fields \ {key} |-> obj.fields[k]])

\* the text of a score whose part 0 holds a good note and then the given entry
WithEntry(node) ==
  WithField(StringifyScore(SlowScore), "parts",
    JArray(<< JObject([notes |->
                 JArray(<< StringifyNote(Note("C", "middle", "quarter")), node >>)]) >>))

\* the text of a score whose second part is the given node
WithPart(node) ==
  WithField(StringifyScore(SlowScore), "parts",
    JArray(<< StringifyPart([notes |-> <<>>]), node >>))

TimeSignatureText(beats, beatValue) == JObject([beats |-> beats, beatValue |-> beatValue])

\* files that loadScore should accept; fault is the field a rejection has to name
GoodFiles ==
  { [file |-> saveScore(SongScore), fault |-> ""],
    [file |-> saveScore(EmptyScore), fault |-> ""],
    [file |-> saveScore(SlowScore), fault |-> ""],
    \* an unknown property, and a rest that carries a pitch and a lyric
    [file |-> JsonFile(WithField(StringifyScore(SlowScore), "composer", JString("N.N."))),
     fault |-> ""],
    [file |-> JsonFile(WithEntry(JObject([type |-> JString("rest"),
                                          duration |-> JString("half"),
                                          pitch |-> JString("C"),
                                          lyric |-> JString("la")]))),
     fault |-> ""],
    \* "tempo": 1e999
    [file |-> JsonFile(WithField(StringifyScore(SongScore), "tempo", JNumber(1, 999))),
     fault |-> ""] }

\* files whose time signature is not a pair of positive integers: 0/4, -3/4, 2.5/4, 4/1e999
BadTimeSignatureFiles ==
  { [file |-> JsonFile(WithField(StringifyScore(SlowScore), "timeSignature",
                                 TimeSignatureText(b, v))),
     fault |-> "timeSignature"] :
    <<b, v>> \in { <<JNumber(0, 0), JNumber(4, 0)>>, <<JNumber(-3, 0), JNumber(4, 0)>>,
                   <<JNumber(25, -1), JNumber(4, 0)>>, <<JNumber(4, 0), JNumber(1, 999)>> } }

\* files with one malformed field
BadFiles ==
  { [file |-> UnreadableFile, fault |-> ""],
    [file |-> GarbageFile, fault |-> ""],
    [file |-> JsonFile(JNull), fault |-> ""],
    [file |-> JsonFile(JArray(<<StringifyScore(SlowScore)>>)), fault |-> ""],
    [file |-> JsonFile(JNumber(7, 0)), fault |-> ""],
    [file |-> JsonFile(WithField(StringifyScore(SongScore), "title", JNumber(5, 0))),
     fault |-> "title"],
    [file |-> JsonFile(WithoutField(StringifyScore(SongScore), "title")), fault |-> "title"],
    [file |-> JsonFile(WithField(StringifyScore(SongScore), "renderingMode", JString("tab"))),
     fault |-> "renderingMode"],
    [file |-> JsonFile(WithField(StringifyScore(SongScore), "clef", JString("alto"))),
     fault |-> "clef"],
    [file |-> JsonFile(WithField(StringifyScore(SongScore), "timeSignature", JNull)),
     fault |-> "timeSignature"],
    [file |-> JsonFile(WithField(StringifyScore(SongScore), "timeSignature",
                                 JArray(<<JNumber(4, 0), JNumber(4, 0)>>))),
     fault |-> "timeSignature"],
    [file |-> JsonFile(WithField(StringifyScore(SongScore), "timeSignature",
                                 TimeSignatureText(JString("4"), JNumber(4, 0)))),
     fault |-> "timeSignature"],
    [file |-> JsonFile(WithoutField(StringifyScore(SongScore), "parts")), fault |-> "parts"],
    [file |-> JsonFile(WithField(StringifyScore(SongScore), "parts", JObject(<<>>))),
     fault |-> "parts"],
    [file |-> JsonFile(WithField(StringifyScore(SongScore), "tempo", JString("fast"))),
     fault |-> "tempo"],
    [file |-> JsonFile(WithField(StringifyScore(SongScore), "tempo", JNull)),
     fault |-> "tempo"],
    [file |-> JsonFile(WithPart(JNull)), fault |-> "parts[]"],
    [file |-> JsonFile(WithPart(JObject([name |-> JString("Voice")]))), fault |-> "notes"],
    [file |-> JsonFile(WithPart(JObject([notes |-> JArray(<<>>), name |-> JNumber(2, 0)]))),
     fault |-> "name"],
    [file |-> JsonFile(WithEntry(JString("C"))), fault |-> "notes[]"],
    [file |-> JsonFile(WithEntry(JNull)), fault |-> "notes[]"],
    [file |-> JsonFile(WithEntry(StringifyNote([type |-> "chord", duration |-> "half"]))),
     fault |-> "type"],
    [file |-> JsonFile(WithEntry(StringifyNote(Note("X", "middle", "half")))),
     fault |-> "pitch"],
    [file |-> JsonFile(WithEntry(StringifyNote(Note("C", "top", "half")))),
     fault |-> "octave"],
    [file |-> JsonFile(WithEntry(StringifyNote(Note("C", "middle", "long")))),
     fault |-> "duration"],
    [file |-> JsonFile(WithEntry(StringifyNote(Rest("long")))), fault |-> "duration"],
    [file |-> JsonFile(WithEntry(WithField(StringifyNote(Note("C", "middle", "half")),
                                           "lyric", JNumber(1, 0)))),
     fault |-> "lyric"],
    [file |-> JsonFile(WithEntry(WithField(StringifyNote(Note("C", "middle", "half")),
                                           "accented", JString("yes")))),
     fault |-> "accented"] }

\* the files the user can choose
FileCases == GoodFiles \cup BadTimeSignatureFiles \cup BadFiles

Files == { c.file : c \in FileCases }

\* what the user picks in the shell: pitches with and without an upper neighbour
PanelPitches == { "C", "E" }
EditorPitches == { "E" }
EditorOctaves == { "lower" }
EditorDurations == { "half" }

\* the files opened in the shell: a song of two parts and a score without parts
ShellFiles == { saveScore(SongScore), saveScore(EmptyScore) }

\* the characters of the exported titles: letters, a digit, a blank, punctuation
TitleChars == { "a", "Z", "7", " ", "-", "!" }

ExportTitles == SeqsUpTo(TitleChars, MaxTitleLen)

\* svgElement.width.baseVal.value and height.baseVal.value: 0 when the svg has no size
SvgWidths == { 0, 300, 800 }
SvgHeights == { 0, 200 }

----------------------------------------------------------------------------
(* The state machine: one call of one entry point per behaviour *)

NoStaffRun == [i |-> 0, allNotes |-> <<>>]
NoStaffLayout == [systems |-> <<>>]
NoCirclesRun == [i |-> 0, allNotes |-> <<>>]
NoCirclesLayout == [rows |-> <<>>]
NoAccentCall == [pitch |-> Undefined]
NoScene == <<>>
NoAction == [type |-> "@@INIT"]
NoFile == [kind |-> "none"]
NoLoad == [phase |-> "idle", file |-> NoFile, chosenAt |-> 0]
NoSave == [file |-> NoFile]
NoExport == [phase |-> "idle"]

\* useState(null), useState("quarter"), useState("middle"), useState(false)
PanelIdle ==
  [selectedPitch |-> Null, selectedDuration |-> "quarter", selectedOctave |-> "middle",
   selectedAccented |-> FALSE]
NoClick == [target |-> "none", effects |-> <<>>]

\* ScoreProvider: useReducer(scoreReducer, initialScoreState); nothing loaded or saved
EditorIdle ==
  /\ state = initialScoreState
  /\ lastAction = NoAction
  /\ outcome = "returned"
  /\ given = initialScoreState
  /\ loading = NoLoad
  /\ saved = NoSave
  /\ events = 0

Init ==
  /\ \E ps \in PartsSet, c \in Contexts :
       /\ score = [timeSignature |-> c.timeSignature, clef |-> c.clef, parts |-> ps]
       /\ config = c.config
  /\ pc = "idle"
  /\ staffRun = NoStaffRun
  /\ staffLayout = NoStaffLayout
  /\ circlesRun = NoCirclesRun
  /\ circlesLayout = NoCirclesLayout
  /\ accentCall = NoAccentCall
  /\ selection = NullSelection
  /\ scene = NoScene
  /\ EditorIdle
  /\ png = NoExport
  /\ panel = PanelIdle
  /\ click = NoClick

\* computeLayout(score, config): lines 112-138
StaffBegin ==
  /\ pc = "idle"
  /\ DOMAIN config \subseteq DOMAIN DEFAULT_CONFIG
  /\ staffRun' = StaffStart(score, config)
  /\ pc' = "staff"
  /\ UNCHANGED <<score, config, staffLayout, circlesRun, circlesLayout, accentCall>>
  /\ UNCHANGED <<renderVars, editorVars, exportVars, shellVars>>

\* computeLayout: one iteration of the forEach, lines 140-186
StaffIterate ==
  /\ pc = "staff"
  /\ staffRun.i < Len(staffRun.allNotes)
  /\ staffRun' = StaffBody(staffRun)
  /\ UNCHANGED <<score, config, pc, staffLayout, circlesRun, circlesLayout, accentCall>>
  /\ UNCHANGED <<renderVars, editorVars, exportVars, shellVars>>

\* computeLayout: lines 188-201
StaffReturn ==
  /\ pc = "staff"
  /\ staffRun.i >= Len(staffRun.allNotes)
  /\ staffLayout' = StaffResult(staffRun)
  /\ pc' = "staffDone"
  /\ UNCHANGED <<score, config, staffRun, circlesRun, circlesLayout, accentCall>>
  /\ UNCHANGED <<renderVars, editorVars, exportVars, shellVars>>

\* computeCirclesLayout(score, config): lines 108-124
CirclesBegin ==
  /\ pc = "idle"
  /\ DOMAIN config \subseteq DOMAIN CIRCLES_DEFAULT_CONFIG
  /\ circlesRun' = CirclesStart(score, config)
  /\ pc' = "circles"
  /\ UNCHANGED <<score, config, staffRun, staffLayout, circlesLayout, accentCall>>
  /\ UNCHANGED <<renderVars, editorVars, exportVars, shellVars>>

\* computeCirclesLayout: one iteration of the for loop, lines 126-164
CirclesIterate ==
  /\ pc = "circles"
  /\ circlesRun.i < Len(circlesRun.allNotes)
  /\ circlesRun' = CirclesBody(circlesRun)
  /\ UNCHANGED <<score, config, pc, staffRun, staffLayout, circlesLayout, accentCall>>
  /\ UNCHANGED <<renderVars, editorVars, exportVars, shellVars>>

\* computeCirclesLayout: lines 166-183
CirclesReturn ==
  /\ pc = "circles"
  /\ circlesRun.i >= Len(circlesRun.allNotes)
  /\ circlesLayout' = CirclesResult(circlesRun)
  /\ pc' = "circlesDone"
  /\ UNCHANGED <<score, config, staffRun, staffLayout, circlesRun, accentCall>>
  /\ UNCHANGED <<renderVars, editorVars, exportVars, shellVars>>

\* getAccentedColors(note.pitch) for a note of the score
AccentedColors ==
  /\ pc = "idle"
  /\ \E e \in { a \in { CollectAllNotes(score)[j] : j \in 1..Len(CollectAllNotes(score)) } :
                  a.note.type = "note" } :
       accentCall' = [pitch |-> e.note.pitch, colors |-> getAccentedColors(e.note.pitch)]
  /\ pc' = "colorsDone"
  /\ UNCHANGED <<score, config, staffRun, staffLayout, circlesRun, circlesLayout>>
  /\ UNCHANGED <<renderVars, editorVars, exportVars, shellVars>>

\* <StaffRenderer score selection width />: the layout is computeLayout(score,
\* { canvasWidth: width }), so only calls with no other override are renderer calls
StaffRender ==
  /\ pc = "staffDone"
  /\ DOMAIN config \subseteq {"canvasWidth"}
  /\ \E sel \in Selections :
       /\ selection' = sel
       /\ scene' = StaffRenderer(staffLayout, score, sel)
  /\ pc' = "staffRendered"
  /\ UNCHANGED <<score, config, staffRun, staffLayout, circlesRun, circlesLayout, accentCall>>
  /\ UNCHANGED <<editorVars, exportVars, shellVars>>

\* <CirclesRenderer score selection width />
CirclesRender ==
  /\ pc = "circlesDone"
  /\ DOMAIN config \subseteq {"canvasWidth"}
  /\ \E sel \in Selections :
       /\ selection' = sel
       /\ scene' = CirclesRenderer(circlesLayout, score, sel)
  /\ pc' = "circlesRendered"
  /\ UNCHANGED <<score, config, staffRun, staffLayout, circlesRun, circlesLayout, accentCall>>
  /\ UNCHANGED <<editorVars, exportVars, shellVars>>

Next ==
  \/ StaffBegin
  \/ StaffIterate
  \/ StaffReturn
  \/ CirclesBegin
  \/ CirclesIterate
  \/ CirclesReturn
  \/ AccentedColors
  \/ StaffRender
  \/ CirclesRender

Spec == Init /\ [][Next]_vars

----------------------------------------------------------------------------
(* The editor: the reducer behind the Toolbar and the note editor *)

\* dispatch(action): one call of scoreReducer on the state held; an error thrown by
\* the reducer leaves the state as it is and ends the session
Dispatch(action) ==
  LET call == scoreReducer(state, action)
  IN  /\ outcome = "returned"
      /\ state' = IF call.threw THEN state ELSE call.returned
      /\ outcome' = IF call.threw THEN call.error ELSE "returned"
      /\ given' = call.given
      /\ lastAction' = action

\* a user event that dispatches: none after a save, at most MaxEvents in all
Edit(action) ==
  /\ events < MaxEvents
  /\ saved = NoSave
  /\ Dispatch(action)
  /\ events' = events + 1
  /\ UNCHANGED <<loading, saved, layoutVars, renderVars, exportVars, shellVars>>

AddNote == \E p \in NotePayloads : Edit([type |-> "ADD_NOTE", payload |-> p])

AddRest == \E p \in RestPayloads : Edit([type |-> "ADD_REST", payload |-> p])

\* Toolbar handleTitleChange
SetTitle == \E t \in Titles : Edit([type |-> "SET_TITLE", payload |-> t])

\* Toolbar handleTimeSignatureChange
SetTimeSignature ==
  \E ts \in TimeSignaturePayloads : Edit([type |-> "SET_TIME_SIGNATURE", payload |-> ts])

\* Toolbar handleClefChange
SetClef == \E c \in Clef : Edit([type |-> "SET_CLEF", payload |-> c])

SetRenderingMode ==
  \E m \in VALID_RENDERING_MODES : Edit([type |-> "SET_RENDERING_MODE", payload |-> m])

EditNote ==
  \E t \in Targets, c \in Changes :
    Edit([type |-> "EDIT_NOTE",
          payload |-> [partIndex |-> t.partIndex, noteIndex |-> t.noteIndex, changes |-> c]])

DeleteNote == \E t \in Targets : Edit([type |-> "DELETE_NOTE", payload |-> t])

ReorderNote == \E r \in Reorders : Edit([type |-> "REORDER_NOTE", payload |-> r])

SetLyric ==
  \E t \in Targets, l \in Lyrics :
    Edit([type |-> "SET_LYRIC",
          payload |-> [partIndex |-> t.partIndex, noteIndex |-> t.noteIndex, lyric |-> l]])

\* Toolbar handleSave: saveScore(score)
Save ==
  /\ events < MaxEvents
  /\ outcome = "returned"
  /\ saved = NoSave
  /\ saved' = [score |-> state, file |-> saveScore(state)]
  /\ events' = events + 1
  /\ UNCHANGED <<state, lastAction, outcome, given, loading, layoutVars, renderVars, exportVars, shellVars>>

\* Toolbar handleFileChange up to the await: one file is read at a time
FileChosen ==
  /\ events < MaxEvents
  /\ outcome = "returned"
  /\ loading.phase # "reading"
  /\ \E f \in Files : loading' = [phase |-> "reading", file |-> f, chosenAt |-> events + 1]
  /\ events' = events + 1
  /\ UNCHANGED <<state, lastAction, outcome, given, saved, layoutVars, renderVars, exportVars, shellVars>>

\* FileRead dispatching only when nothing was edited while the file was read
FileRead_KeepsEditsMadeMeanwhile ==
  /\ loading.phase = "reading"
  /\ LET loaded == loadScore(loading.file)
     IN  IF loaded.ok /\ events = loading.chosenAt
           THEN Dispatch([type |-> "LOAD_SCORE", payload |-> loaded.value])
           ELSE UNCHANGED <<state, lastAction, outcome, given>>
  /\ loading' = [loading EXCEPT !.phase = "read"]
  /\ UNCHANGED <<saved, events, layoutVars, renderVars, exportVars, shellVars>>

\* Toolbar handleFileChange after the await: dispatch LOAD_SCORE, or console.error
FileRead ==
  /\ loading.phase = "reading"
  /\ LET loaded == loadScore(loading.file)
     IN  IF loaded.ok
           THEN Dispatch([type |-> "LOAD_SCORE", payload |-> loaded.value])
           ELSE UNCHANGED <<state, lastAction, outcome, given>>
  /\ loading' = [loading EXCEPT !.phase = "read"]
  /\ UNCHANGED <<saved, events, layoutVars, renderVars, exportVars, shellVars>>

EditorInit ==
  /\ score = [timeSignature |-> [beats |-> 4, beatValue |-> 4], clef |-> "treble",
              parts |-> <<>>]
  /\ config = <<>>
  /\ pc = "idle"
  /\ staffRun = NoStaffRun
  /\ staffLayout = NoStaffLayout
  /\ circlesRun = NoCirclesRun
  /\ circlesLayout = NoCirclesLayout
  /\ accentCall = NoAccentCall
  /\ selection = NullSelection
  /\ scene = NoScene
  /\ EditorIdle
  /\ png = NoExport
  /\ panel = PanelIdle
  /\ click = NoClick

EditorNext ==
  \/ AddNote
  \/ AddRest
  \/ SetTitle
  \/ SetTimeSignature
  \/ SetClef
  \/ SetRenderingMode
  \/ EditNote
  \/ DeleteNote
  \/ ReorderNote
  \/ SetLyric
  \/ Save
  \/ FileChosen
  \/ FileRead

EditorSpec == EditorInit /\ [][EditorNext]_vars

----------------------------------------------------------------------------
(* The PNG export: one call of exportPng and the browser events that follow it *)

\* exportPng(svgElement, title), lines 43-62 and 89
ExportPng ==
  /\ png.phase = "idle"
  /\ \E title \in ExportTitles, w \in SvgWidths, h \in SvgHeights :
       png' = ExportStart(title, w, h)
  /\ UNCHANGED <<layoutVars, renderVars, editorVars, shellVars>>

\* the image loaded: img.onload, lines 63-82
ImageLoaded ==
  /\ png.phase = "loading"
  /\ \E hasContext \in BOOLEAN :
       png' = [OnLoad(png, hasContext) EXCEPT
                 !.browser = Append(@, IF hasContext THEN "load" ELSE "load, no context")]
  /\ UNCHANGED <<layoutVars, renderVars, editorVars, shellVars>>

\* the image did not load: img.onerror, lines 84-87
ImageFailed ==
  /\ png.phase = "loading"
  /\ png' = [OnError(png) EXCEPT !.browser = Append(@, "error")]
  /\ UNCHANGED <<layoutVars, renderVars, editorVars, shellVars>>

\* the canvas was converted, or could not be: the toBlob callback, lines 73-81
BlobReady ==
  /\ png.phase = "converting"
  /\ \E hasBlob \in BOOLEAN :
       png' = [OnBlob(png, hasBlob) EXCEPT
                 !.browser = Append(@, IF hasBlob THEN "blob" ELSE "no blob")]
  /\ UNCHANGED <<layoutVars, renderVars, editorVars, shellVars>>

ExportNext ==
  \/ ExportPng
  \/ ImageLoaded
  \/ ImageFailed
  \/ BlobReady

ExportSpec == EditorInit /\ [][ExportNext]_vars

----------------------------------------------------------------------------
(* The application shell: ScoreCanvas, NoteInputPanel, NoteEditor, LyricsEditor and
   the Toolbar's file input around one score and one selection *)

\* store/selectionReducer.ts
selectionReducer(sel, action) ==
  CASE action.type = "SELECT_NOTE" ->
         Selected(action.payload.partIndex, action.payload.noteIndex)
    [] action.type = "CLEAR_SELECTION" -> NullSelection
    [] OTHER -> sel

\* the Score as the layout engines read it: whole numbers in the time signature
LayoutScore(st) ==
  [timeSignature |-> [beats |-> st.timeSignature.beats.num,
                      beatValue |-> st.timeSignature.beatValue.num],
   clef |-> st.clef, parts |-> st.parts]

\* ScoreCanvas renderContent: the elements on the canvas, each with its onClick
renderContent(st, sel) ==
  IF st.renderingMode = "staff"
    THEN StaffRenderer(computeLayout(LayoutScore(st), [canvasWidth |-> Px(800)]),
                       LayoutScore(st), sel)
  ELSE IF st.renderingMode = "circles"
    THEN CirclesRenderer(computeCirclesLayout(LayoutScore(st), [canvasWidth |-> Px(800)]),
                         LayoutScore(st), sel)
  ELSE <<>>

\* handleCanvasClick clearing the selection whatever the target of the click is
handleCanvasClick_AnyTarget(sel, target) ==
  [selection |-> selectionReducer(sel, [type |-> "CLEAR_SELECTION"]),
   effects |-> <<[op |-> "dispatch", type |-> "CLEAR_SELECTION"]>>]

\* ScoreCanvas handleCanvasClick: the container's onClick, reached by every click inside
handleCanvasClick(sel, target) ==
  IF target = "container"
    THEN [selection |-> selectionReducer(sel, [type |-> "CLEAR_SELECTION"]),
          effects |-> <<[op |-> "dispatch", type |-> "CLEAR_SELECTION"]>>]
    ELSE [selection |-> sel, effects |-> <<>>]

\* ScoreCanvas handleNoteClick: SELECT_NOTE, then the outer callback when there is one
handleNoteClick(sel, partIndex, noteIndex, hasCallback) ==
  LET payload == [partIndex |-> partIndex, noteIndex |-> noteIndex]
  IN  [selection |-> selectionReducer(sel, [type |-> "SELECT_NOTE", payload |-> payload]),
       effects |-> <<[op |-> "dispatch", type |-> "SELECT_NOTE", payload |-> payload]>>
                     \o (IF hasCallback
                           THEN <<[op |-> "onNoteClick", payload |-> payload]>>
                           ELSE <<>>)]

\* a user event of the shell: none after the reducer threw, at most MaxClicks in all
UserEvent ==
  /\ events < MaxClicks
  /\ outcome = "returned"
  /\ events' = events + 1

\* a user event on a control outside the canvas
ControlEvent(control) ==
  /\ UserEvent
  /\ click' = [target |-> control, effects |-> <<>>]

\* a click on a rendered note or rest: its <g> onClick, then the container's onClick
NoteClicked ==
  /\ UserEvent
  /\ \E content \in { renderContent(state, selection) } :
         \E j \in DOMAIN content, hasCallback \in BOOLEAN :
           LET el == content[j]
               press == handleNoteClick(selection, el.partIndex, el.noteIndex, hasCallback)
               bubble == handleCanvasClick(press.selection, "note")
           IN  /\ selection' = bubble.selection
               /\ click' = [target |-> "note", partIndex |-> el.partIndex,
                            noteIndex |-> el.noteIndex, hasCallback |-> hasCallback,
                            effects |-> press.effects \o bubble.effects]
  /\ UNCHANGED <<state, lastAction, outcome, given, loading, saved, scene, panel>>
  /\ UNCHANGED <<layoutVars, exportVars>>

\* a click beside the notes: on the container itself, or on the svg inside it
CanvasClicked ==
  /\ UserEvent
  /\ \E target \in {"container", "svg"} :
       LET bubble == handleCanvasClick(selection, target)
       IN  /\ selection' = bubble.selection
           /\ click' = [target |-> target, effects |-> bubble.effects]
  /\ UNCHANGED <<state, lastAction, outcome, given, loading, saved, scene, panel>>
  /\ UNCHANGED <<layoutVars, exportVars>>

\* array.includes(x)
Includes(array, x) == \E k \in DOMAIN array : array[k] = x

\* NoteInputPanel canBeAccented
canBeAccented(pn) == pn.selectedPitch # Null /\ Includes(ACCENTED_PITCHES, pn.selectedPitch)

\* NoteInputPanel handlePitchClick
PitchClicked ==
  /\ ControlEvent("pitch button")
  /\ \E pitch \in PanelPitches :
       panel' = [panel EXCEPT !.selectedPitch = pitch,
                              !.selectedAccented =
                                 IF ~Includes(ACCENTED_PITCHES, pitch) THEN FALSE ELSE @]
  /\ UNCHANGED <<state, lastAction, outcome, given, loading, saved>>
  /\ UNCHANGED <<layoutVars, renderVars, exportVars>>

\* NoteInputPanel: the accented toggle, disabled unless canBeAccented
AccentToggled ==
  /\ ControlEvent("accented toggle")
  /\ canBeAccented(panel)
  /\ panel' = [panel EXCEPT !.selectedAccented = ~@]
  /\ UNCHANGED <<state, lastAction, outcome, given, loading, saved>>
  /\ UNCHANGED <<layoutVars, renderVars, exportVars>>

\* NoteInputPanel handleAddNote: the button is disabled while no pitch is chosen
AddNoteClicked ==
  /\ ControlEvent("add note")
  /\ panel.selectedPitch # Null
  /\ Dispatch([type |-> "ADD_NOTE",
               payload |-> Spread([pitch |-> panel.selectedPitch,
                                   octave |-> panel.selectedOctave,
                                   duration |-> panel.selectedDuration],
                                  IF panel.selectedAccented THEN [accented |-> TRUE]
                                                            ELSE <<>>)])
  /\ UNCHANGED <<loading, saved, layoutVars, renderVars, exportVars, panel>>

\* NoteInputPanel handleAddRest
AddRestClicked ==
  /\ ControlEvent("add rest")
  /\ Dispatch([type |-> "ADD_REST", payload |-> [duration |-> panel.selectedDuration]])
  /\ UNCHANGED <<loading, saved, layoutVars, renderVars, exportVars, panel>>

\* NoteEditor and LyricsEditor: score.parts[partIndex]?.notes[noteIndex] of the
\* selection is there, so the controls are rendered
EditorShown ==
  /\ selection.selected
  /\ HasElement(state, selection.partIndex, selection.noteIndex)

\* the noteOrRest the two editors show
noteOrRest == state.parts[selection.partIndex + 1].notes[selection.noteIndex + 1]

\* NoteEditor handlePitchChange and handleOctaveChange: both controls are disabled for
\* a rest; handleDurationChange: dispatches only if (isNote), so nothing happens on a rest
NoteEdited ==
  /\ ControlEvent("note editor")
  /\ EditorShown
  /\ noteOrRest.type = "note"
  /\ \E changes \in { [pitch |-> p] : p \in EditorPitches }
                      \cup { [octave |-> o] : o \in EditorOctaves }
                      \cup { [duration |-> d] : d \in EditorDurations } :
       Dispatch([type |-> "EDIT_NOTE",
                 payload |-> [partIndex |-> selection.partIndex,
                              noteIndex |-> selection.noteIndex, changes |-> changes]])
  /\ UNCHANGED <<loading, saved, layoutVars, renderVars, exportVars, panel>>

\* handleDelete that leaves the selection where it is
DeleteClicked_KeepsSelection ==
  /\ ControlEvent("delete")
  /\ EditorShown
  /\ Dispatch([type |-> "DELETE_NOTE",
               payload |-> [partIndex |-> selection.partIndex,
                            noteIndex |-> selection.noteIndex]])
  /\ UNCHANGED <<selection, loading, saved, scene, layoutVars, exportVars, panel>>

\* NoteEditor handleDelete: DELETE_NOTE, then CLEAR_SELECTION
DeleteClicked ==
  /\ ControlEvent("delete")
  /\ EditorShown
  /\ Dispatch([type |-> "DELETE_NOTE",
               payload |-> [partIndex |-> selection.partIndex,
                            noteIndex |-> selection.noteIndex]])
  /\ selection' = selectionReducer(selection, [type |-> "CLEAR_SELECTION"])
  /\ UNCHANGED <<loading, saved, scene, layoutVars, exportVars, panel>>

\* LyricsEditor handleLyricChange: the input is rendered for a selected note only
LyricChanged ==
  /\ ControlEvent("lyric input")
  /\ EditorShown
  /\ noteOrRest.type = "note"
  /\ \E value \in Lyrics :
       Dispatch([type |-> "SET_LYRIC",
                 payload |-> [partIndex |-> selection.partIndex,
                              noteIndex |-> selection.noteIndex, lyric |-> value]])
  /\ UNCHANGED <<loading, saved, layoutVars, renderVars, exportVars, panel>>

\* Toolbar handleFileChange up to the await, in the shell
ShellFileChosen ==
  /\ ControlEvent("file input")
  /\ loading.phase # "reading"
  /\ \E f \in ShellFiles : loading' = [phase |-> "reading", file |-> f, chosenAt |-> events + 1]
  /\ UNCHANGED <<state, lastAction, outcome, given, saved>>
  /\ UNCHANGED <<layoutVars, renderVars, exportVars, panel>>

ShellNext ==
  \/ NoteClicked
  \/ CanvasClicked
  \/ PitchClicked
  \/ AccentToggled
  \/ AddNoteClicked
  \/ AddRestClicked
  \/ NoteEdited
  \/ DeleteClicked
  \/ LyricChanged
  \/ ShellFileChosen
  \/ FileRead

ShellSpec == EditorInit /\ [][ShellNext]_vars

----------------------------------------------------------------------------
(* Vocabulary of the properties *)

\* the flattened sequence of (partIndex, noteIndex, element): part 0 first
RECURSIVE FlattenedFrom(_, _)
FlattenedFrom(parts, k) ==
  IF k > Len(parts) THEN <<>>
  ELSE [j \in 1..Len(parts[k].notes) |->
          [partIndex |-> k - 1, noteIndex |-> j - 1, isRest |-> parts[k].notes[j].type = "rest"]]
       \o FlattenedFrom(parts, k + 1)

Flattened(s) == FlattenedFrom(s.parts, 1)

\* the element of the score a layout entry points at
ElementAt(s, en) == s.parts[en.partIndex + 1].notes[en.noteIndex + 1]

\* the notes of a sequence of systems, read in order
RECURSIVE SystemNotes(_)
SystemNotes(systems) ==
  IF systems = <<>> THEN <<>> ELSE Head(systems).notes \o SystemNotes(Tail(systems))

\* the number of bar lines of a sequence of systems
RECURSIVE BarLineCount(_)
BarLineCount(systems) ==
  IF systems = <<>> THEN 0 ELSE Len(Head(systems).barLines) + BarLineCount(Tail(systems))

\* the circles of a sequence of rows, read in order
RECURSIVE RowCircles(_)
RowCircles(rows) ==
  IF rows = <<>> THEN <<>> ELSE Head(rows).circles \o RowCircles(Tail(rows))

\* the systems of a running computeLayout: the closed ones and the open one
RunSystems(r) == r.systems \o <<r.currentSystem>>

\* the rows of a running computeCirclesLayout: the closed ones and the open one
RunRows(r) == r.rows \o <<[startY |-> r.currentRowY, circles |-> r.currentRow]>>

Pairs(entries) ==
  [j \in 1..Len(entries) |->
     [partIndex |-> entries[j].partIndex, noteIndex |-> entries[j].noteIndex,
      isRest |-> entries[j].isRest]]

\* the partial configuration with another canvas width
WithWidth(partial, w) ==
  [k \in DOMAIN partial \cup {"canvasWidth"} |-> IF k = "canvasWidth" THEN w ELSE partial[k]]

\* the position of a pitch in the scale C D E F G A H
PitchIndex(p) == CHOOSE j \in 1..7 : PITCH_NAMES[j] = p

Register(o) == CASE o = "lower" -> 0 [] o = "middle" -> 1 [] o = "upper" -> 2

----------------------------------------------------------------------------
(* C1: computeLayout places every note/rest of the flattened sequence in    *)
(* exactly one system: the systems read in order, and the notes in each in  *)
(* order, give the flattened (partIndex, noteIndex) sequence, none missing, *)
(* duplicated or reordered.                                                 *)
C1_EveryNoteInOneSystemInOrder ==
  pc = "staffDone" =>
    Pairs(SystemNotes(staffLayout.systems)) = Flattened(score)

C1_Witness ==
  /\ pc = "staffDone"
  /\ Len(score.parts) = 2
  /\ Len(score.parts[1].notes) >= 1
  /\ Len(score.parts[2].notes) >= 2
  /\ Len(staffLayout.systems) >= 2

----------------------------------------------------------------------------
(* C2: one running beat counter in quarter-note units over the flattened    *)
(* sequence: each element adds its beats; when the counter reaches or       *)
(* exceeds beats * (4 / beatValue), exactly one bar line is recorded in the *)
(* system holding the element, at the element's x + noteSpacing / 2, and    *)
(* the counter is reset to 0 (overflow dropped); otherwise no bar line is   *)
(* recorded.  4 quarters in 4/4 give 1 bar line, 6 quarters in 3/4 give 2,  *)
(* 12 eighths in 6/8 give 2.                                                *)

\* whole = 4, half = 2, quarter = 1, eighth = 1/2, sixteenth = 1/4 quarter notes, times 16
QuarterBeats16(d) ==
  CASE d = "whole" -> 64 [] d = "half" -> 32 [] d = "quarter" -> 16
    [] d = "eighth" -> 8 [] d = "sixteenth" -> 4

\* the number of resets of a counter started at c over the durations ds
RECURSIVE Resets(_, _, _)
Resets(ds, c, ts) ==
  IF ds = <<>> THEN 0
  ELSE LET b == c + QuarterBeats16(Head(ds))
       IN  IF b * ts.beatValue >= 16 * ts.beats * 4
             THEN 1 + Resets(Tail(ds), 0, ts)
             ELSE Resets(Tail(ds), b, ts)

Durations(s) ==
  [j \in 1..Len(Flattened(s)) |-> ElementAt(s, Flattened(s)[j]).duration]

C2_Step ==
  (pc = "staff" /\ pc' = "staff" /\ staffRun'.i = staffRun.i + 1) =>
    LET e == Flattened(score)[staffRun.i + 1]
        d == ElementAt(score, e).duration
        b == 16 * staffRun.currentBeats + BeatUnit * QuarterBeats16(d)
        reached == b * score.timeSignature.beatValue
                     >= 16 * BeatUnit * score.timeSignature.beats * 4
        wrapped == Len(staffRun'.systems) = Len(staffRun.systems) + 1
        holding == IF wrapped THEN staffRun'.systems[Len(staffRun'.systems)]
                   ELSE staffRun'.currentSystem
        placed == holding.notes[Len(holding.notes)]
    IN  /\ Len(holding.notes) = Len(staffRun.currentSystem.notes) + 1
        /\ placed.partIndex = e.partIndex /\ placed.noteIndex = e.noteIndex
        /\ reached =>
             /\ staffRun'.currentBeats = 0
             /\ Len(holding.barLines) = Len(staffRun.currentSystem.barLines) + 1
             /\ 2 * holding.barLines[Len(holding.barLines)]
                  = 2 * placed.x + staffRun.fullConfig.noteSpacing
             /\ SubSeq(holding.barLines, 1, Len(holding.barLines) - 1)
                  = staffRun.currentSystem.barLines
        /\ ~reached =>
             /\ 16 * staffRun'.currentBeats = b
             /\ holding.barLines = staffRun.currentSystem.barLines
        /\ wrapped => staffRun'.currentSystem.barLines = <<>>

C2_Total ==
  pc = "staffDone" =>
    /\ BarLineCount(staffLayout.systems) = Resets(Durations(score), 0, score.timeSignature)
    /\ \A n \in {4, 6, 12} :
         (\E d \in {"quarter", "eighth"} :
            score.parts = <<[notes |-> [j \in 1..n |-> Note("C", "middle", d)]]>>) =>
           LET ts == score.timeSignature
               q == score.parts[1].notes[1].duration = "quarter"
           IN  /\ (n = 4 /\ q /\ ts = [beats |-> 4, beatValue |-> 4]) =>
                    BarLineCount(staffLayout.systems) = 1
               /\ (n = 6 /\ q /\ ts = [beats |-> 3, beatValue |-> 4]) =>
                    BarLineCount(staffLayout.systems) = 2
               /\ (n = 12 /\ ~q /\ ts = [beats |-> 6, beatValue |-> 8]) =>
                    BarLineCount(staffLayout.systems) = 2

C2_BarLinesByBeatCounter == [][C2_Step]_vars /\ []C2_Total

\* a whole note in 3/4: the counter passes 3 beats, one bar line, overflow dropped
C2_Witness ==
  /\ pc = "staff"
  /\ staffRun.i >= 2
  /\ score.timeSignature = [beats |-> 3, beatValue |-> 4]
  /\ staffRun.allNotes[staffRun.i].note.type = "note"
  /\ staffRun.allNotes[staffRun.i].note.duration = "whole"
  /\ staffRun.allNotes[staffRun.i - 1].note.duration = "quarter"
  /\ staffRun.currentBeats = 0
  /\ BarLineCount(RunSystems(staffRun)) = 1

----------------------------------------------------------------------------
(* C3: computeLayout of a score without any note (no parts, or only empty   *)
(* parts) returns exactly one system, with zero notes and zero bar lines.   *)
C3_EmptyScoreOneEmptySystem ==
  (pc = "staffDone" /\ TotalNotes(score.parts) = 0) =>
    /\ Len(staffLayout.systems) = 1
    /\ staffLayout.systems[1].notes = <<>>
    /\ staffLayout.systems[1].barLines = <<>>

C3_Witness ==
  /\ pc = "staffDone"
  /\ Len(score.parts) = 2
  /\ TotalNotes(score.parts) = 0
  /\ Len(staffLayout.systems) = 1

----------------------------------------------------------------------------
\* the steps from the pitch on the bottom line (E in treble, G in bass)
StepsFromBottomLine(p, c) == PitchIndex(p) - PitchIndex(IF c = "treble" THEN "E" ELSE "G")

\* the 42 combinations (a fact of the function, stated of the states before a call)
C4_AllCombinations ==
  /\ \A p \in Pitch, o \in Octave, c \in Clef :
       /\ pitchToStaffPosition(p, o, c) = StepsFromBottomLine(p, c) + 7 * Register(o)
       /\ pitchToStaffPosition(p, o, c) \in -4..18
       /\ pitchToStaffPosition(p, o, "bass") = pitchToStaffPosition(p, o, "treble") - 2
  /\ \A j \in 1..6, o \in Octave, c \in Clef :
       pitchToStaffPosition(PITCH_NAMES[j + 1], o, c)
         = pitchToStaffPosition(PITCH_NAMES[j], o, c) + 1
  /\ pitchToStaffPosition("E", "lower", "treble") = 0
  /\ pitchToStaffPosition("C", "middle", "treble") = 5
  /\ pitchToStaffPosition("G", "lower", "bass") = 0
  /\ pitchToStaffPosition("A", "middle", "bass") = 8

(* C4: pitchToStaffPosition is total over 7 pitches x 3 octaves x 2 clefs   *)
(* and equals base(clef, pitch) + 7 * register: consecutive pitches differ  *)
(* by 1, treble lower E = 0, treble middle C = 5, bass lower G = 0, bass    *)
(* middle A = 8, bass = treble - 2, every result lies in -4..18; each note  *)
(* laid out on the staff carries that position.                             *)
C4_PitchToStaffPosition ==
  /\ pc = "idle" => C4_AllCombinations
  /\ pc \in {"staff", "staffDone"} =>
       LET placed == SystemNotes(RunSystems(staffRun))
       IN  \A j \in 1..Len(placed) :
             ~placed[j].isRest =>
               LET el == ElementAt(score, placed[j])
               IN  /\ placed[j].y
                        = StepsFromBottomLine(el.pitch, score.clef) + 7 * Register(el.octave)
                   /\ placed[j].y \in -4..18

C4_Witness ==
  /\ pc = "staffDone"
  /\ score.clef = "bass"
  /\ score.parts = <<[notes |-> <<Note("A", "middle", "quarter")>>]>>
  /\ staffLayout.systems[1].notes[1].y = 8

----------------------------------------------------------------------------
(* C5: for any score and any two canvas widths, the two staff layouts list  *)
(* the same sequence of (partIndex, noteIndex, y, isRest) and the same      *)
(* total number of bar lines, and the two circle layouts list the same      *)
(* sequence of (partIndex, noteIndex, radius, number and radii of           *)
(* sub-circles, isRest); only the grouping and the coordinates may differ.  *)

StaffWidthFree(layout) ==
  [notes |-> [j \in 1..Len(SystemNotes(layout.systems)) |->
                LET n == SystemNotes(layout.systems)[j]
                IN  <<n.partIndex, n.noteIndex, n.y, n.isRest>>],
   barLines |-> BarLineCount(layout.systems)]

SubRadii(c) ==
  IF "subCircles" \in DOMAIN c
    THEN [k \in 1..Len(c.subCircles) |-> c.subCircles[k].radius] ELSE <<>>

CirclesWidthFree(layout) ==
  [j \in 1..Len(RowCircles(layout.rows)) |->
     LET c == RowCircles(layout.rows)[j]
     IN  <<c.partIndex, c.noteIndex, c.radius, SubRadii(c), c.isRest>>]

C5_WidthChangesOnlyWrapping ==
  /\ pc = "staffDone" =>
       \A w \in Widths :
         StaffWidthFree(computeLayout(score, WithWidth(config, w))) = StaffWidthFree(staffLayout)
  /\ pc = "circlesDone" =>
       \A w \in Widths :
         CirclesWidthFree(computeCirclesLayout(score, WithWidth(config, w)))
           = CirclesWidthFree(circlesLayout)

\* three systems at this width, one at the default width, and bar lines
C5_Witness ==
  /\ pc = "staffDone"
  /\ Len(staffLayout.systems) >= 3
  /\ Len(computeLayout(score, WithWidth(config, Px(800))).systems) = 1
  /\ BarLineCount(staffLayout.systems) >= 2

----------------------------------------------------------------------------
(* Vocabulary of the circle properties *)

\* the horizontal footprint of a duration, in spacing units
Footprint(d) ==
  CASE d = "whole" -> 4 [] d = "half" -> 2 [] d = "quarter" -> 1
    [] d = "eighth" -> 1 [] d = "sixteenth" -> 1

SeqRange(q) == { q[j] : j \in 1..Len(q) }

HasSubCircles(c) == "subCircles" \in DOMAIN c

Max(S) == CHOOSE m \in S : \A n \in S : n <= m
Min(S) == CHOOSE m \in S : \A n \in S : m <= n

\* the right edge of what an entry draws: its circle, or its rightmost sub-circle
RightExtent(c) ==
  IF HasSubCircles(c)
    THEN Max({ c.subCircles[k].cx + c.subCircles[k].radius : k \in 1..Len(c.subCircles) })
    ELSE c.cx + c.radius

\* a step of the loop of computeCirclesLayout
CirclesStep == pc = "circles" /\ pc' = "circles" /\ circlesRun'.i = circlesRun.i + 1

\* that step closed the current row and opened a new one
StartedNewRow == Len(circlesRun'.rows) = Len(circlesRun.rows) + 1

\* the entry that step pushed
Pushed == circlesRun'.currentRow[Len(circlesRun'.currentRow)]

----------------------------------------------------------------------------
(* C6: with r = circleSize / 2, a note's entry has radius 1.8r for whole,    *)
(* 1.4r for half and r for quarter, without sub-circles; an eighth has       *)
(* exactly 2 sub-circles of radius 0.6r on one horizontal line, symmetric    *)
(* about the entry's centre; a sixteenth has exactly 4 sub-circles of radius *)
(* 0.4r at the corners of a square centred on the entry's centre; no other   *)
(* entry has sub-circles.                                                    *)
C6_CircleSizing ==
  pc = "circlesDone" =>
    \A c \in SeqRange(RowCircles(circlesLayout.rows)) :
      LET el == ElementAt(score, c)
          size == circlesLayout.config.circleSize
          subs == SeqRange(c.subCircles)
          xs == { sc.cx : sc \in subs }
          ys == { sc.cy : sc \in subs }
      IN  /\ (el.type = "rest" \/ el.duration \in {"whole", "half", "quarter"}) =>
               ~HasSubCircles(c)
          /\ (el.type = "note" /\ el.duration = "whole") => 20 * c.radius = 18 * size
          /\ (el.type = "note" /\ el.duration = "half") => 20 * c.radius = 14 * size
          /\ (el.type = "note" /\ el.duration = "quarter") => 2 * c.radius = size
          /\ (el.type = "note" /\ el.duration = "eighth") =>
               /\ HasSubCircles(c) /\ Len(c.subCircles) = 2
               /\ \A sc \in subs : 20 * sc.radius = 6 * size /\ sc.cy = c.cy
               /\ c.subCircles[1].cx # c.subCircles[2].cx
               /\ c.subCircles[1].cx + c.subCircles[2].cx = 2 * c.cx
          /\ (el.type = "note" /\ el.duration = "sixteenth") =>
               /\ HasSubCircles(c) /\ Len(c.subCircles) = 4
               /\ \A sc \in subs : 20 * sc.radius = 4 * size
               /\ Cardinality(xs) = 2 /\ Cardinality(ys) = 2
               /\ { <<sc.cx, sc.cy>> : sc \in subs } = xs \X ys
               /\ Min(xs) + Max(xs) = 2 * c.cx
               /\ Min(ys) + Max(ys) = 2 * c.cy
               /\ Max(xs) - Min(xs) = Max(ys) - Min(ys)

C6_Witness ==
  /\ pc = "circlesDone"
  /\ circlesLayout.config.circleSize = Px(30)
  /\ Len(RowCircles(circlesLayout.rows)) = 3
  /\ ElementAt(score, RowCircles(circlesLayout.rows)[1]).duration = "sixteenth"
  /\ ElementAt(score, RowCircles(circlesLayout.rows)[2]).duration = "eighth"
  /\ ElementAt(score, RowCircles(circlesLayout.rows)[3]).duration = "whole"
  /\ Len(RowCircles(circlesLayout.rows)[1].subCircles) = 4

----------------------------------------------------------------------------
(* C7: within a row the running x advances after each element by            *)
(* footprint(duration) * circleSpacing (4 for whole, 2 for half, 1 for      *)
(* quarter, eighth and sixteenth); a rest produces an entry with radius 0   *)
(* and isRest = true, without octave or lyric, and advances the running x   *)
(* by the same amount as a note of the same duration.                       *)
C7_Step ==
  CirclesStep =>
    LET cfg == circlesRun.fullConfig
        el == ElementAt(score, Flattened(score)[circlesRun.i + 1])
        from == IF StartedNewRow THEN (2 * cfg.marginLeft + cfg.circleSize) \div 2
                ELSE circlesRun.currentX
    IN  /\ circlesRun'.currentX = from + Footprint(el.duration) * cfg.circleSpacing
        /\ Pushed.isRest = (el.type = "rest")
        /\ el.type = "rest" =>
             /\ Pushed.radius = 0
             /\ "octave" \notin DOMAIN Pushed
             /\ "lyric" \notin DOMAIN Pushed
        /\ el.type = "note" => Pushed.radius > 0

C7_FootprintAdvance == [][C7_Step]_vars

\* a whole rest pushed behind another element of the same row
C7_Witness ==
  /\ pc = "circles"
  /\ Len(circlesRun.currentRow) >= 2
  /\ circlesRun.currentRow[Len(circlesRun.currentRow)].isRest
  /\ circlesRun.allNotes[circlesRun.i].note.duration = "whole"
  /\ circlesRun.currentX
       = circlesRun.currentRow[Len(circlesRun.currentRow)].cx
           - (3 * circlesRun.fullConfig.circleSpacing) \div 2
           + 4 * circlesRun.fullConfig.circleSpacing

----------------------------------------------------------------------------
(* C8 as stated: an element starts a new row exactly when the current row is *)
(* non-empty and its rightmost extent (centre x plus radius, or the right    *)
(* edge of its rightmost sub-circle) would exceed the usable width           *)
(* canvasWidth - marginLeft - circleSize / 2; so no circle or sub-circle     *)
(* other than the first element of its row extends right of that width.      *)

\* twice the usable width
UsableWidth2(cfg) == 2 * cfg.canvasWidth - 2 * cfg.marginLeft - cfg.circleSize

C8_ExtentStep ==
  CirclesStep =>
    LET cfg == circlesRun.fullConfig
        from == IF StartedNewRow THEN (2 * cfg.marginLeft + cfg.circleSize) \div 2
                ELSE circlesRun.currentX
        extentInOldRow == RightExtent(Pushed) - from + circlesRun.currentX
    IN  StartedNewRow <=>
          (Len(circlesRun.currentRow) > 0 /\ 2 * extentInOldRow > UsableWidth2(cfg))

C8_ExtentsWithin ==
  pc \in {"circles", "circlesDone"} =>
    \A k \in 1..Len(RunRows(circlesRun)) :
      \A j \in 2..Len(RunRows(circlesRun)[k].circles) :
        2 * RightExtent(RunRows(circlesRun)[k].circles[j]) <= UsableWidth2(circlesRun.fullConfig)

C8_Original == [][C8_ExtentStep]_vars /\ []C8_ExtentsWithin

(* C8 as amended: an element starts a new row exactly when the current row  *)
(* is non-empty and the right edge of its slot, running x + footprint *      *)
(* circleSpacing - circleSpacing / 2, exceeds the usable width; so the slot  *)
(* of no element other than the first of its row ends right of that width.   *)
C8_SlotStep ==
  CirclesStep =>
    LET cfg == circlesRun.fullConfig
        el == ElementAt(score, Flattened(score)[circlesRun.i + 1])
        slotEdge2 == 2 * circlesRun.currentX
                       + 2 * Footprint(el.duration) * cfg.circleSpacing - cfg.circleSpacing
    IN  StartedNewRow <=>
          (Len(circlesRun.currentRow) > 0 /\ slotEdge2 > UsableWidth2(cfg))

C8_SlotsWithin ==
  pc \in {"circles", "circlesDone"} =>
    \A k \in 1..Len(RunRows(circlesRun)) :
      \A j \in 2..Len(RunRows(circlesRun)[k].circles) :
        LET c == RunRows(circlesRun)[k].circles[j]
            cfg == circlesRun.fullConfig
        IN  2 * c.cx + Footprint(ElementAt(score, c).duration) * cfg.circleSpacing
              <= UsableWidth2(cfg)

C8_WrapBySlotEdge == [][C8_SlotStep]_vars /\ []C8_SlotsWithin

\* an eighth, second of its row, whose right sub-circle passes the usable width
C8_Witness ==
  /\ pc = "circles"
  /\ Len(circlesRun.currentRow) >= 2
  /\ ElementAt(score, circlesRun.currentRow[Len(circlesRun.currentRow)]).duration = "eighth"
  /\ 2 * RightExtent(circlesRun.currentRow[Len(circlesRun.currentRow)])
       > UsableWidth2(circlesRun.fullConfig)

----------------------------------------------------------------------------
(* C9: computeCirclesLayout places every note/rest of the flattened         *)
(* sequence in exactly one row, in order; row k has startY = marginTop +    *)
(* circleSize / 2 + k * rowSpacing; no row is empty unless the score has no *)
(* note, and then the result is one row without circles (an element wider   *)
(* than the canvas stands alone on its row).                                *)
C9_RowsHoldEveryNoteInOrder ==
  pc = "circlesDone" =>
    LET rows == circlesLayout.rows
        cfg == MergeConfig(CIRCLES_DEFAULT_CONFIG, config)
    IN  /\ Pairs(RowCircles(rows)) = Flattened(score)
        /\ \A k \in 1..Len(rows) :
             2 * rows[k].startY
               = 2 * cfg.marginTop + cfg.circleSize + 2 * (k - 1) * cfg.rowSpacing
        /\ TotalNotes(score.parts) > 0 => \A k \in 1..Len(rows) : rows[k].circles # <<>>
        /\ TotalNotes(score.parts) = 0 => (Len(rows) = 1 /\ rows[1].circles = <<>>)

\* a whole element wider than the canvas, alone on the first row of two parts' rows
C9_Witness ==
  /\ pc = "circlesDone"
  /\ Len(score.parts) = 2
  /\ Len(circlesLayout.rows) >= 3
  /\ Len(circlesLayout.rows[1].circles) = 1
  /\ ElementAt(score, circlesLayout.rows[1].circles[1]).duration = "whole"
  /\ 2 * circlesLayout.rows[1].circles[1].cx + 4 * circlesLayout.config.circleSpacing
       > UsableWidth2(circlesLayout.config)

----------------------------------------------------------------------------
RightPitch(p) ==
  CASE p = "C" -> "D" [] p = "D" -> "E" [] p = "F" -> "G" [] p = "G" -> "A"
    [] p = "A" -> "H" [] p = "E" -> "E" [] p = "H" -> "H"

\* the seven pitches (a fact of the function, stated of the states before a call)
C10_AllPitches ==
  /\ ULWILA_COLORS["C"] = "#1A1A1A" /\ ULWILA_COLORS["D"] = "#8B4513"
  /\ ULWILA_COLORS["E"] = "#0000CD" /\ ULWILA_COLORS["F"] = "#228B22"
  /\ ULWILA_COLORS["G"] = "#DC143C" /\ ULWILA_COLORS["A"] = "#FF8C00"
  /\ ULWILA_COLORS["H"] = "#FFD700"
  /\ \A p, q \in Pitch : p # q => ULWILA_COLORS[p] # ULWILA_COLORS[q]
  /\ \A p \in Pitch :
       /\ getAccentedColors(p).left = ULWILA_COLORS[p]
       /\ getAccentedColors(p).right = ULWILA_COLORS[RightPitch(p)]

(* C10: getAccentedColors(p).left is ULWILA_COLORS[p]; right is the colour  *)
(* of the next pitch for C->D, D->E, F->G, G->A, A->H and the pitch's own   *)
(* colour for E and H; the seven colours are C=#1A1A1A, D=#8B4513,          *)
(* E=#0000CD, F=#228B22, G=#DC143C, A=#FF8C00, H=#FFD700, pairwise          *)
(* distinct.                                                                *)
C10_AccentedColors ==
  /\ pc = "idle" => C10_AllPitches
  /\ pc = "colorsDone" =>
       /\ accentCall.colors.left = ULWILA_COLORS[accentCall.pitch]
       /\ accentCall.colors.right = ULWILA_COLORS[RightPitch(accentCall.pitch)]

C10_Witness ==
  /\ pc = "colorsDone"
  /\ accentCall.pitch = "E"
  /\ accentCall.colors = [left |-> "#0000CD", right |-> "#0000CD"]

----------------------------------------------------------------------------
(* C11 *)

\* the selection points at a note of the score
SelectsNote(s, sel) ==
  /\ sel.selected
  /\ HasElement(s, sel.partIndex, sel.noteIndex)
  /\ s.parts[sel.partIndex + 1].notes[sel.noteIndex + 1].type = "note"

\* the selection is null or points past the end of the parts or of a part
SelectsNothing(s, sel) ==
  \/ ~sel.selected
  \/ ~HasElement(s, sel.partIndex, sel.noteIndex)

\* C11: in the scene of either renderer, a selection that points at a note of the
\* score gives exactly one highlight (one blue rectangle, one selection ring), on the
\* element with the selection's partIndex and noteIndex and on no other element; a
\* null selection or one that points past the end gives no highlight at all.
C11_OneHighlightOnSelectedNote ==
  pc \in {"staffRendered", "circlesRendered"} =>
    /\ SelectsNote(score, selection) =>
         \E j \in DOMAIN scene :
           /\ scene[j].highlights = 1
           /\ scene[j].partIndex = selection.partIndex
           /\ scene[j].noteIndex = selection.noteIndex
           /\ \A k \in DOMAIN scene \ {j} : scene[k].highlights = 0
    /\ SelectsNothing(score, selection) =>
         \A j \in DOMAIN scene : scene[j].highlights = 0

\* two parts, the circles renderer, the first note of part 1 selected and ringed while
\* the first note of part 0 is drawn without a ring
C11_Witness ==
  /\ pc = "circlesRendered"
  /\ Len(score.parts) = 2
  /\ selection = Selected(1, 0)
  /\ SelectsNote(score, selection)
  /\ \E j, k \in DOMAIN scene :
       /\ scene[j].partIndex = 1 /\ scene[j].noteIndex = 0 /\ scene[j].highlights = 1
       /\ scene[k].partIndex = 0 /\ scene[k].noteIndex = 0 /\ scene[k].highlights = 0

----------------------------------------------------------------------------
(* The data model (models/types.ts and the invariants stated for it) *)

ValidNote(e) ==
  /\ e.type = "note"
  /\ {"type", "pitch", "octave", "duration"} \subseteq DOMAIN e
  /\ DOMAIN e \subseteq {"type", "pitch", "octave", "duration", "lyric", "accented"}
  /\ e.pitch \in Pitch /\ e.octave \in Octave /\ e.duration \in Duration
  /\ "accented" \in DOMAIN e => e.accented \in BOOLEAN

\* a rest carries type and duration and nothing else
ValidRest(e) ==
  /\ e.type = "rest"
  /\ DOMAIN e = {"type", "duration"}
  /\ e.duration \in Duration

PositiveInteger(x) == x.den = 1 /\ x.num > 0

DataModelValid(s) ==
  /\ {"title", "renderingMode", "timeSignature", "clef", "parts"} \subseteq DOMAIN s
  /\ DOMAIN s \subseteq {"title", "renderingMode", "timeSignature", "clef", "parts", "tempo"}
  /\ s.renderingMode \in {"staff", "circles"}
  /\ s.clef \in Clef
  /\ PositiveInteger(s.timeSignature.beats)
  /\ PositiveInteger(s.timeSignature.beatValue)
  /\ \A i \in DOMAIN s.parts :
       /\ DOMAIN s.parts[i] \subseteq {"notes", "name"}
       /\ \A j \in DOMAIN s.parts[i].notes :
            ValidNote(s.parts[i].notes[j]) \/ ValidRest(s.parts[i].notes[j])

----------------------------------------------------------------------------
(* C12 *)

\* C12: for every score that satisfies the data model, whatever optional fields it
\* has, loadScore of the file saveScore wrote returns a score equal to the one saved.
C12_SaveThenLoadIsIdentity ==
  (saved # NoSave /\ DataModelValid(saved.score)) =>
    loadScore(saved.file) = Returned(saved.score)

\* the same for the scores whose tempo, if any, is finite
C12_FiniteTempoRoundTrip ==
  (/\ saved # NoSave
   /\ DataModelValid(saved.score)
   /\ "tempo" \in DOMAIN saved.score => saved.score.tempo.den # 0) =>
    loadScore(saved.file) = Returned(saved.score)

\* a score loaded from a file with "tempo": 1e999 has been saved: the file holds
\* "tempo": null and loadScore rejects it
C12_Witness ==
  /\ saved # NoSave
  /\ DataModelValid(saved.score)
  /\ "tempo" \in DOMAIN saved.score
  /\ saved.score.tempo = Infinity
  /\ Get(saved.file.doc, "tempo") = JNull
  /\ ~loadScore(saved.file).ok

----------------------------------------------------------------------------
(* C13 *)

\* C13: loadScore either rejects, with an error that names the malformed field, or
\* returns a score that satisfies the data model: enumerated values in range, rests
\* with type and duration only, beats and beatValue positive integers.
C13_LoadRejectsOrReturnsValid ==
  loading.phase # "idle" =>
    LET result == loadScore(loading.file)
    IN  IF result.ok
          THEN DataModelValid(result.value)
          ELSE /\ result.message # ""
               /\ \A c \in FileCases :
                    (c.file = loading.file /\ c.fault # "") => result.field = c.fault

\* the same without the demand on beats and beatValue
C13_ValidButForTimeSignature ==
  loading.phase # "idle" =>
    LET result == loadScore(loading.file)
    IN  IF result.ok
          THEN DataModelValid([result.value EXCEPT
                                 !.timeSignature = [beats |-> Num(4), beatValue |-> Num(4)]])
          ELSE /\ result.message # ""
               /\ \A c \in FileCases :
                    (c.file = loading.file /\ c.fault \notin {"", "timeSignature"}) =>
                      result.field = c.fault

\* a file with "beats": 0 has been read and its score is the state
C13_Witness ==
  /\ loading.phase = "read"
  /\ loadScore(loading.file).ok
  /\ state = loadScore(loading.file).value
  /\ state.timeSignature.beats = Num(0)

----------------------------------------------------------------------------
(* Vocabulary of the reducer properties *)

\* the step is one dispatch of an editing action (a file choice changes loading, a
\* save changes saved, the end of a read does not count as an event)
EditStep == events' = events + 1 /\ loading' = loading /\ saved' = saved

\* the step is the end of a file read
ReadStep == loading.phase = "reading" /\ loading'.phase = "read"

\* the element ADD_NOTE or ADD_REST has to append for a payload
ElementFor(action) ==
  IF action.type = "ADD_REST" THEN Rest(action.payload.duration)
  ELSE IF "accented" \in DOMAIN action.payload /\ action.payload.accented
    THEN AccentedNote(action.payload.pitch, action.payload.octave, action.payload.duration)
    ELSE Note(action.payload.pitch, action.payload.octave, action.payload.duration)

\* the score with one element more at the end of part 0 and nothing else changed
WithAppended(s, element) ==
  [s EXCEPT !.parts = [s.parts EXCEPT ![1] =
                         [s.parts[1] EXCEPT !.notes = Append(s.parts[1].notes, element)]]]

----------------------------------------------------------------------------
(* C14 *)

C14_Step ==
  (EditStep /\ lastAction'.type \in {"ADD_NOTE", "ADD_REST"}) =>
    /\ outcome' = "returned"
    /\ state' = WithAppended(state, ElementFor(lastAction'))

\* C14: in every state the reducer can hold, the initial one, the edited ones and the
\* loaded ones, a loaded score without parts included, ADD_NOTE and ADD_REST return
\* the state with exactly one element, built from the payload, appended to
\* parts[0].notes, and with every other part and field as before.
C14_AddAppendsToFirstPart == [][C14_Step]_vars

\* the same in the states that have a part 0
C14_AddAppendsWhenPartZeroExists == [][state.parts # <<>> => C14_Step]_vars

\* ADD_NOTE was dispatched on a loaded score without parts and the reducer threw
C14_Witness ==
  /\ lastAction.type = "ADD_NOTE"
  /\ state.parts = <<>>
  /\ DataModelValid(state)
  /\ loading.phase = "read"
  /\ outcome # "returned"

----------------------------------------------------------------------------
(* C15 *)

\* every rest of the score has the fields type and duration and no other
RestsBare(s) ==
  \A i \in DOMAIN s.parts :
    \A j \in DOMAIN s.parts[i].notes :
      s.parts[i].notes[j].type = "rest" => DOMAIN s.parts[i].notes[j] = {"type", "duration"}

\* the indices address a rest, a part that is missing or a note index that is missing
AddressesNoNote(s, p, n) ==
  \/ ~HasElement(s, p, n)
  \/ s.parts[p + 1].notes[n + 1].type = "rest"

C15_Step ==
  (/\ EditStep
   /\ lastAction'.type \in {"EDIT_NOTE", "SET_LYRIC"}
   /\ AddressesNoNote(state, lastAction'.payload.partIndex, lastAction'.payload.noteIndex)) =>
    /\ outcome' = "returned"
    /\ state' = state

\* C15: from the initial state and from loaded scores, after any sequence of reducer
\* actions every rest carries type and duration only; EDIT_NOTE and SET_LYRIC addressed
\* at a rest, at a missing part or at a missing note index return the state unchanged.
C15_RestsStayBare == [][C15_Step]_vars /\ []RestsBare(state)

\* EDIT_NOTE was addressed at the rest at (0, 1) of the loaded song, which is as loaded
C15_Witness ==
  /\ lastAction.type = "EDIT_NOTE"
  /\ lastAction.payload.partIndex = 0 /\ lastAction.payload.noteIndex = 1
  /\ state = SongScore
  /\ state.parts[1].notes[2] = Rest("quarter")

----------------------------------------------------------------------------
(* C16 *)

C16_Step ==
  (EditStep /\ lastAction'.type = "DELETE_NOTE") =>
    LET p == lastAction'.payload.partIndex
        n == lastAction'.payload.noteIndex
    IN  /\ outcome' = "returned"
        /\ ~(p + 1 \in DOMAIN state.parts) => state' = state
        /\ (p + 1 \in DOMAIN state.parts /\ ~HasElement(state, p, n)) =>
             state'.parts[p + 1].notes = state.parts[p + 1].notes
        /\ HasElement(state, p, n) =>
             LET old == state.parts[p + 1].notes
                 new == state'.parts[p + 1].notes
             IN  /\ Len(new) = Len(old) - 1
                 /\ \A j \in 1..Len(new) : new[j] = IF j - 1 < n THEN old[j] ELSE old[j + 1]
                 /\ state' = [state EXCEPT !.parts[p + 1].notes = new]

\* C16: DELETE_NOTE on an existing element gives n - 1 elements, those before the index
\* in place, those after it one place down, other parts and fields unchanged; a note
\* index outside the part leaves the notes as they are, a part index outside the parts
\* returns the state as it is.
C16_DeleteShiftsDown == [][C16_Step]_vars

\* the rest at (0, 1) of the loaded song was deleted: three notes are left in part 0
C16_Witness ==
  /\ lastAction.type = "DELETE_NOTE"
  /\ lastAction.payload.partIndex = 0 /\ lastAction.payload.noteIndex = 1
  /\ given = SongScore
  /\ Len(state.parts[1].notes) = 3
  /\ state.parts[1].notes[2] = SongScore.parts[1].notes[3]

----------------------------------------------------------------------------
(* C17 *)

C17_Step ==
  /\ (EditStep \/ (ReadStep /\ loadScore(loading.file).ok)) => given' = state
  /\ (EditStep /\ lastAction'.type = "SET_TITLE") =>
       state' = [state EXCEPT !.title = lastAction'.payload]
  /\ (EditStep /\ lastAction'.type = "SET_TIME_SIGNATURE") =>
       state' = [state EXCEPT !.timeSignature = lastAction'.payload]
  /\ (EditStep /\ lastAction'.type = "SET_CLEF") =>
       state' = [state EXCEPT !.clef = lastAction'.payload]
  /\ (EditStep /\ lastAction'.type = "SET_RENDERING_MODE") =>
       state' = [state EXCEPT !.renderingMode = lastAction'.payload]

----------------------------------------------------------------------------
(* C18 *)

C18_Step ==
  /\ ReadStep =>
       IF loadScore(loading.file).ok
         THEN /\ state' = loadScore(loading.file).value
              /\ lastAction' = [type |-> "LOAD_SCORE", payload |-> loadScore(loading.file).value]
         ELSE UNCHANGED <<state, lastAction, outcome, given>>
  /\ (lastAction'.type = "LOAD_SCORE" /\ lastAction.type # "LOAD_SCORE") => ReadStep

\* C18: when the read of a file chosen in the Toolbar ends well, the whole score is
\* replaced by the loaded one, whatever the state was and whatever was edited while the
\* file was read; when loadScore rejects, nothing is dispatched and the state stays.
C18_LoadReplacesWholeScore == [][C18_Step]_vars

\* a file was chosen, an edit changed the score while it was read, and the score is
\* now the loaded one
C18_Witness ==
  /\ loading.phase = "read"
  /\ loadScore(loading.file).ok
  /\ events > loading.chosenAt
  /\ saved = NoSave
  /\ lastAction.type = "LOAD_SCORE"
  /\ given # initialScoreState
  /\ state = loadScore(loading.file).value
  /\ state # given

----------------------------------------------------------------------------
(* C19 *)

\* C19: the promise of exportPng is settled exactly once whatever the image load
\* brings: rejected with 'SVG rendering failed' when the image fails to load, with
\* 'Canvas context unavailable' when there is no 2D context, with 'PNG conversion
\* failed' when toBlob yields null; resolved only once the download was triggered;
\* and no download is triggered on a rejecting path.
C19_SettlesOnce ==
  png.phase # "idle" =>
    /\ Len(png.settled) <= 1
    /\ png.phase = "done" <=> Len(png.settled) = 1
    /\ png.browser = <<"error">> => png.settled = <<"rejected: SVG rendering failed">>
    /\ png.browser = <<"load, no context">> =>
         png.settled = <<"rejected: Canvas context unavailable">>
    /\ png.browser = <<"load", "no blob">> =>
         png.settled = <<"rejected: PNG conversion failed">>
    /\ png.browser = <<"load", "blob">> => png.settled = <<"resolved">>
    /\ png.settled = <<"resolved">> => Len(png.downloads) = 1
    /\ png.settled # <<"resolved">> => png.downloads = <<>>

\* toBlob yielded null for the export of the score titled "a!": rejected, no download
C19_Witness ==
  /\ png.phase = "done"
  /\ png.title = <<"a", "!">>
  /\ png.browser = <<"load", "no blob">>
  /\ png.settled = <<"rejected: PNG conversion failed">>
  /\ png.downloads = <<>>

----------------------------------------------------------------------------
(* C20 *)

\* the running x after the j-th element of a system
RunningX(cfg, j) == cfg.marginLeft + j * cfg.noteSpacing

\* the number of elements after which a system is closed: the first advance that takes
\* the running x beyond canvasWidth - marginLeft
ClosesAfter(cfg, n) ==
  /\ n >= 1
  /\ RunningX(cfg, n) > cfg.canvasWidth - cfg.marginLeft
  /\ RunningX(cfg, n - 1) <= cfg.canvasWidth - cfg.marginLeft

\* C20: in the layout computeLayout returns, the elements of a system stand at
\* marginLeft, marginLeft + noteSpacing, ... whatever their durations; every system but
\* the last ends with the element whose advance takes the running x beyond
\* canvasWidth - marginLeft, and the last holds no element after such a one; system k
\* starts at x = marginLeft, y = marginTop + k * (staffHeight + systemSpacing), so that
\* the extents [startY, startY + staffHeight] of two systems do not overlap.
C20_SystemGeometry ==
  pc \in {"staffDone", "staffRendered"} =>
    LET cfg == staffLayout.config
        systems == staffLayout.systems
    IN  \A k \in DOMAIN systems :
          /\ systems[k].startX = cfg.marginLeft
          /\ systems[k].startY = cfg.marginTop + (k - 1) * (cfg.staffHeight + cfg.systemSpacing)
          /\ \A j \in DOMAIN systems[k].notes :
               systems[k].notes[j].x = RunningX(cfg, j - 1)
          /\ k < Len(systems) => ClosesAfter(cfg, Len(systems[k].notes))
          /\ \A j \in 1..(Len(systems[k].notes) - 1) :
               RunningX(cfg, j) <= cfg.canvasWidth - cfg.marginLeft
          /\ \A l \in DOMAIN systems :
               k < l => systems[k].startY + cfg.staffHeight < systems[l].startY

\* twelve eighths on a canvas of 150 px: six systems of two elements each, although the
\* durations differ from those of the quarter scores
C20_Witness ==
  /\ pc = "staffDone"
  /\ staffLayout.config.canvasWidth = Px(150)
  /\ Len(staffLayout.systems) = 6
  /\ \A k \in 1..6 : Len(staffLayout.systems[k].notes) = 2
  /\ staffLayout.systems[6].startY = Px(40) + 5 * Px(120)

----------------------------------------------------------------------------
(* C21: ledger lines *)

\* the staff positions of the ledger lines of one rendered element, in drawing order
LedgerPositions(el) == [k \in DOMAIN el.ledgers |-> el.ledgers[k].pos]

\* 10, 12, ... up to y
EvenUpTo(y) == [k \in 1..((y - 8) \div 2) |-> 8 + 2 * k]

\* -2, -4, ... down to y
EvenDownTo(y) == [k \in 1..((0 - y) \div 2) |-> 0 - 2 * k]

\* C21: a rendered note at staff position y has ledger lines exactly at 10, 12, ... up
\* to y when y > 8 and at -2, -4, ... down to y when y < 0, each drawn at the pixel
\* height of its position; a note with 0 <= y <= 8 has none and a rest has none.
C21_LedgerLines ==
  pc = "staffRendered" =>
    \A j \in DOMAIN scene :
      LET el == scene[j]
          y == el.staffPosition
      IN  /\ el.symbol = "rest" => el.ledgers = <<>>
          /\ el.symbol = "notehead" =>
               /\ y > 8 => LedgerPositions(el) = EvenUpTo(y)
               /\ y < 0 => LedgerPositions(el) = EvenDownTo(y)
               /\ (y >= 0 /\ y <= 8) => el.ledgers = <<>>
               /\ \A k \in DOMAIN el.ledgers :
                    el.ledgers[k].y1 = el.pixelY + (y - el.ledgers[k].pos) * Px(5)

\* a scene with a note two ledger lines above the staff or two below it
C21_Witness ==
  /\ pc = "staffRendered"
  /\ \E j \in DOMAIN scene :
       /\ scene[j].symbol = "notehead"
       /\ \/ scene[j].staffPosition = 13 /\ Len(scene[j].ledgers) = 2
          \/ scene[j].staffPosition = -4 /\ Len(scene[j].ledgers) = 2

----------------------------------------------------------------------------
(* C22: the selection ring of CirclesRenderer *)

\* the ring of element el passes strictly outside the drawn circle c: its radius exceeds
\* the distance from the ring's centre to the centre of c plus the radius of c
RingClears(el, c) ==
  LET reach == el.ringRadius - c.radius
      dx == c.cx - el.cx
      dy == c.cy - el.cy
  IN  reach > 0 /\ reach * reach > dx * dx + dy * dy

\* C22: the selection ring of a selected note lies strictly outside every circle drawn
\* for that note, the sub-circles of an eighth or sixteenth note included.
C22_RingOutsideEverything ==
  pc = "circlesRendered" =>
    \A j \in DOMAIN scene :
      scene[j].highlights = 1 =>
        \A k \in DOMAIN scene[j].drawn : RingClears(scene[j], scene[j].drawn[k])

\* the same for the notes drawn as one circle (whole, half, quarter)
C22_RingOutsideSingleCircle ==
  pc = "circlesRendered" =>
    \A j \in DOMAIN scene :
      (scene[j].highlights = 1 /\ scene[j].symbol = "circle") =>
        RingClears(scene[j], scene[j].drawn[1])

\* a selected eighth note at default size: ring radius 12 + 8 = 20 px, while its
\* sub-circles reach 13.2 + 12 = 25.2 px from the centre
C22_Witness ==
  /\ pc = "circlesRendered"
  /\ \E j \in DOMAIN scene :
       /\ scene[j].highlights = 1
       /\ scene[j].symbol = "sub-circles"
       /\ Len(scene[j].drawn) = 2
       /\ scene[j].ringRadius = Px(20)
       /\ scene[j].drawn[2].cx + scene[j].drawn[2].radius > scene[j].cx + scene[j].ringRadius

----------------------------------------------------------------------------
(* C23: REORDER_NOTE *)

\* the sequence without its element at the 1-based position i
Without(seq, i) == [j \in 1..(Len(seq) - 1) |-> IF j < i THEN seq[j] ELSE seq[j + 1]]

\* how often x occurs in seq
Occurrences(seq, x) == Cardinality({ j \in DOMAIN seq : seq[j] = x })

IsPermutation(old, new) ==
  /\ Len(new) = Len(old)
  /\ \A j \in DOMAIN new : Occurrences(new, new[j]) = Occurrences(old, new[j])

C23_Step ==
  (EditStep /\ lastAction'.type = "REORDER_NOTE"
            /\ lastAction'.payload.partIndex + 1 \in DOMAIN state.parts) =>
    LET p == lastAction'.payload.partIndex
        from == lastAction'.payload.fromIndex
        to == lastAction'.payload.toIndex
        old == state.parts[p + 1].notes
        new == state'.parts[p + 1].notes
    IN  /\ outcome' = "returned"
        /\ IsPermutation(old, new)
        /\ \A j \in DOMAIN new : new[j] # UndefinedElement
        /\ (from + 1 \in DOMAIN old /\ to + 1 \in DOMAIN old) =>
             /\ new[to + 1] = old[from + 1]
             /\ Without(new, to + 1) = Without(old, from + 1)

\* C23: REORDER_NOTE on an existing part returns a notes list that is a permutation of
\* the previous one for every fromIndex and toIndex (same length, same elements, no
\* undefined entry); with both indices inside the list the moved note sits at toIndex
\* and the other notes keep their relative order.
C23_ReorderIsPermutation == [][C23_Step]_vars

C23_InRangeStep ==
  (EditStep /\ lastAction'.type = "REORDER_NOTE"
            /\ HasElement(state, lastAction'.payload.partIndex, lastAction'.payload.fromIndex)
            /\ HasElement(state, lastAction'.payload.partIndex, lastAction'.payload.toIndex)) =>
    LET p == lastAction'.payload.partIndex
        from == lastAction'.payload.fromIndex
        to == lastAction'.payload.toIndex
        old == state.parts[p + 1].notes
        new == state'.parts[p + 1].notes
    IN  /\ outcome' = "returned"
        /\ IsPermutation(old, new)
        /\ \A j \in DOMAIN new : new[j] # UndefinedElement
        /\ new[to + 1] = old[from + 1]
        /\ Without(new, to + 1) = Without(old, from + 1)
        /\ state' = [state EXCEPT !.parts[p + 1].notes = new]

\* the same with fromIndex and toIndex both addressing an element of the part
C23_ReorderInRange == [][C23_InRangeStep]_vars

\* REORDER_NOTE from index 7 on the four elements of the loaded song: five entries
\* afterwards, the first of them undefined
C23_Witness ==
  /\ lastAction.type = "REORDER_NOTE"
  /\ lastAction.payload.fromIndex = 7 /\ lastAction.payload.toIndex = 0
  /\ given = SongScore
  /\ outcome = "returned"
  /\ Len(state.parts[1].notes) = 5
  /\ state.parts[1].notes[1] = UndefinedElement

\* REORDER_NOTE from index 0 to index 2 on the loaded song: the first note is third
C23_InRangeWitness ==
  /\ lastAction.type = "REORDER_NOTE"
  /\ lastAction.payload.fromIndex = 0 /\ lastAction.payload.toIndex = 2
  /\ given = SongScore
  /\ state.parts[1].notes[3] = SongScore.parts[1].notes[1]
  /\ state.parts[1].notes[1] = SongScore.parts[1].notes[2]

----------------------------------------------------------------------------
(* C24: clicks on the canvas *)

\* the step is a user event that was a click on the canvas
ClickStep == events' = events + 1 /\ click'.target \in {"note", "container", "svg"}

C24_Step ==
  /\ (ClickStep /\ click'.target = "note") =>
       LET pair == [partIndex |-> click'.partIndex, noteIndex |-> click'.noteIndex]
           first == click'.effects[1]
       IN  /\ HasElement(state, pair.partIndex, pair.noteIndex)
           /\ selection' = Selected(pair.partIndex, pair.noteIndex)
           /\ first.op = "dispatch" /\ first.type = "SELECT_NOTE" /\ first.payload = pair
           /\ click'.hasCallback =>
                /\ Len(click'.effects) = 2
                /\ click'.effects[2].op = "onNoteClick"
                /\ click'.effects[2].payload = pair
           /\ ~click'.hasCallback => Len(click'.effects) = 1
           /\ state' = state
  /\ (ClickStep /\ click'.target = "container") =>
       selection' = NullSelection /\ state' = state

\* C24: a click on a rendered note or rest sets the selection to that element's
\* (partIndex, noteIndex), by a SELECT_NOTE dispatched first, then calls the outer
\* onNoteClick, when there is one, with the same pair, and dispatches nothing else, so
\* the same click does not clear the selection; a click whose target is the container
\* itself leaves the selection null; neither changes the score.
C24_ClickSelects == [][C24_Step]_vars

\* the third element of the loaded song was clicked, with an outer callback, while
\* another element was selected
C24_Witness ==
  /\ click.target = "note"
  /\ click.hasCallback
  /\ click.partIndex = 0 /\ click.noteIndex = 2
  /\ selection = Selected(0, 2)
  /\ Len(click.effects) = 2
  /\ state = SongScore

----------------------------------------------------------------------------
(* C25: delete in the NoteEditor *)

C25_Step ==
  (events' = events + 1 /\ click'.target = "delete"
     /\ selection.selected /\ HasElement(state, selection.partIndex, selection.noteIndex)) =>
    LET p == selection.partIndex
        n == selection.noteIndex
        old == state.parts[p + 1].notes
        new == state'.parts[p + 1].notes
    IN  /\ lastAction' = [type |-> "DELETE_NOTE",
                           payload |-> [partIndex |-> p, noteIndex |-> n]]
        /\ outcome' = "returned"
        /\ Len(new) = Len(old) - 1
        /\ new = Without(old, n + 1)
        /\ state' = [state EXCEPT !.parts[p + 1].notes = new]
        /\ selection' = NullSelection

\* C25: delete in the NoteEditor, with an existing note or rest selected, dispatches
\* DELETE_NOTE for the selected pair: the part is one element shorter, the others keep
\* their order, nothing else of the score changes; and the selection is null afterwards,
\* so the element that moved into the deleted index is not selected.
C25_DeleteClearsSelection == [][C25_Step]_vars

\* the first note of the loaded song was selected and deleted: the rest that was
\* second is now at index 0 and nothing is selected
C25_Witness ==
  /\ click.target = "delete"
  /\ lastAction.payload = [partIndex |-> 0, noteIndex |-> 0]
  /\ given = SongScore
  /\ Len(state.parts[1].notes) = 3
  /\ state.parts[1].notes[1] = SongScore.parts[1].notes[2]
  /\ selection = NullSelection

----------------------------------------------------------------------------
(* C26: the selection points into the score *)

SelectionInScore ==
  selection.selected => HasElement(state, selection.partIndex, selection.noteIndex)

\* C26: after any interleaving of note clicks, background clicks, add note, add rest,
\* edits of pitch, duration and octave, lyric changes, editor deletes and file loads, a
\* non-null selection addresses an element that exists in the current score.
C26_SelectionInScore == SelectionInScore

\* the same as long as no file was opened
C26_SelectionInScoreWithoutLoad == loading = NoLoad => SelectionInScore

\* a note of the song was selected, then a file without parts was loaded: the
\* selection still names (0, 2), where the score has nothing
C26_Witness ==
  /\ loading.phase = "read"
  /\ lastAction.type = "LOAD_SCORE"
  /\ state = EmptyScore
  /\ selection = Selected(0, 2)
  /\ ~HasElement(state, 0, 2)

----------------------------------------------------------------------------
(* C27: accented notes made with the editor's controls *)

\* every note of the score with accented = true has a pitch with an upper neighbour
AccentsOnAccentedPitches(st) ==
  \A p \in DOMAIN st.parts : \A n \in DOMAIN st.parts[p].notes :
    LET e == st.parts[p].notes[n]
    IN  (e.type = "note" /\ "accented" \in DOMAIN e /\ e.accented) =>
          e.pitch \in {"C", "D", "F", "G", "A"}

\* C27: from initialScoreState, with the controls of NoteInputPanel, NoteEditor and
\* LyricsEditor only (no file opened), every note whose accented flag is true has a
\* pitch among C, D, F, G, A.
C27_AccentedPitchesOnly == loading = NoLoad => AccentsOnAccentedPitches(state)

C27_AddStep ==
  (events' = events + 1 /\ click'.target = "add note" /\ outcome' = "returned") =>
    LET added == state'.parts[1].notes[Len(state'.parts[1].notes)]
    IN  ("accented" \in DOMAIN added /\ added.accented) =>
          added.pitch \in {"C", "D", "F", "G", "A"}

\* the notes NoteInputPanel adds are accented on C, D, F, G, A only
C27_PanelAddsValidAccents == [][C27_AddStep]_vars

\* an accented C was added, selected and given the pitch E in the NoteEditor
C27_Witness ==
  /\ loading = NoLoad
  /\ click.target = "note editor"
  /\ lastAction.type = "EDIT_NOTE"
  /\ lastAction.payload.changes = [pitch |-> "E"]
  /\ state.parts[1].notes = << AccentedNote("E", "middle", "quarter") >>

----------------------------------------------------------------------------
(* C28: noteheads inside the svg *)

\* C28: the centre of every notehead StaffRenderer draws lies inside the vertical extent
\* the svg reports: 0 <= pixelY <= svgHeight, with svgHeight the last system's startY
\* + staffHeight + marginTop, for every pitch, octave and clef, at any width.
C28_NoteheadsInsideSvg ==
  pc = "staffRendered" =>
    \A j \in DOMAIN scene :
      scene[j].symbol = "notehead" =>
        /\ scene[j].pixelY >= 0
        /\ scene[j].pixelY <= staffSvgHeight(staffLayout)

\* the same for the notes at staff positions -4 .. 16
C28_InsideFromMinus4To16 ==
  pc = "staffRendered" =>
    \A j \in DOMAIN scene :
      (scene[j].symbol = "notehead" /\ scene[j].staffPosition \in -4..16) =>
        /\ scene[j].pixelY >= 0
        /\ scene[j].pixelY <= staffSvgHeight(staffLayout)

\* an upper H in the treble clef: staff position 18 in the first system, whose bottom
\* line is at 80 px, so the notehead is centred at 80 - 18 * 5 = -10 px
C28_Witness ==
  /\ pc = "staffRendered"
  /\ score.clef = "treble"
  /\ \E j \in DOMAIN scene :
       /\ scene[j].symbol = "notehead"
       /\ scene[j].staffPosition = 18
       /\ scene[j].pixelY = 0 - Px(10)

----------------------------------------------------------------------------
(* C29: neighbours in a row of circles *)

\* the left edge of what an entry draws: its circle, or its leftmost sub-circle
LeftExtent(c) ==
  IF HasSubCircles(c)
    THEN Min({ c.subCircles[k].cx - c.subCircles[k].radius : k \in 1..Len(c.subCircles) })
    ELSE c.cx - c.radius

\* the entries of a row that are drawn: the rests are not
Visible(row) == SelectSeq(row.circles, LAMBDA c : ~c.isRest)

\* the call ran with circleSize 40 and circleSpacing 50
DefaultCircles ==
  /\ circlesLayout.config.circleSize = Px(40)
  /\ circlesLayout.config.circleSpacing = Px(50)

\* C29: with circleSize 40 and circleSpacing 50, in every row the right edge of a drawn
\* element (its circle, or its rightmost sub-circle) is not to the right of the left
\* edge of the next drawn element of the row.
C29_NeighboursDoNotOverlap ==
  (pc = "circlesDone" /\ DefaultCircles) =>
    \A r \in DOMAIN circlesLayout.rows :
      LET visible == Visible(circlesLayout.rows[r])
      IN  \A j \in 1..(Len(visible) - 1) :
            RightExtent(visible[j]) <= LeftExtent(visible[j + 1])

\* the same for every pair of neighbours that are not two pairs of sub-circles (two
\* eighth notes)
C29_NoOverlapButForTwoEighths ==
  (pc = "circlesDone" /\ DefaultCircles) =>
    \A r \in DOMAIN circlesLayout.rows :
      LET visible == Visible(circlesLayout.rows[r])
      IN  \A j \in 1..(Len(visible) - 1) :
            ~(/\ HasSubCircles(visible[j]) /\ Len(visible[j].subCircles) = 2
              /\ HasSubCircles(visible[j + 1]) /\ Len(visible[j + 1].subCircles) = 2) =>
              RightExtent(visible[j]) <= LeftExtent(visible[j + 1])

\* two eighth notes side by side: the first reaches 25.2 px right of its centre, the
\* second, centred 50 px further, 25.2 px left of its own
C29_Witness ==
  /\ pc = "circlesDone"
  /\ DefaultCircles
  /\ \E r \in DOMAIN circlesLayout.rows :
       LET visible == Visible(circlesLayout.rows[r])
       IN  \E j \in 1..(Len(visible) - 1) :
             /\ visible[j + 1].cx - visible[j].cx = Px(50)
             /\ RightExtent(visible[j]) - LeftExtent(visible[j + 1]) = 40

----------------------------------------------------------------------------
(* C30: no empty system *)

\* C30: when the score has at least one note or rest, every system computeLayout
\* returns holds at least one element, also when the last element of the score is the
\* one that closes a system, so the systems are exactly the systems that hold notes.
C30_NoEmptySystem ==
  (pc = "staffDone" /\ TotalNotes(score.parts) > 0) =>
    /\ \A k \in DOMAIN staffLayout.systems : Len(staffLayout.systems[k].notes) > 0
    /\ Len(staffLayout.systems)
         = Cardinality({ k \in DOMAIN RunSystems(staffRun) :
                           Len(RunSystems(staffRun)[k].notes) > 0 })

\* the last element closed its system: the loop ended with an open system without
\* notes, which is not among the systems returned
C30_Witness ==
  /\ pc = "staffDone"
  /\ TotalNotes(score.parts) > 0
  /\ staffRun.currentSystem.notes = <<>>
  /\ Len(staffRun.systems) >= 1
  /\ Len(staffLayout.systems) = Len(staffRun.systems)

====
